---- MODULE Spec2Model ----
(***************************************************************************)
(* The position/trade ledger of alpaca-donchian-adx-vf-bot.                *)
(*                                                                         *)
(* Two SQLite-backed stores implement TradingDataBaseInterface:            *)
(*   LiveTraderDataBaseManager  (Infrastructure/live_trader)               *)
(*   BacktestDataBaseManager    (Infrastructure/backtester)                *)
(* Each owns one sqlite3 connection and one cursor.  The connection sees   *)
(* its own pending transaction; the database file holds what was           *)
(* committed.  commit() copies the pending view into the file, rollback()  *)
(* restores the view from the file.  AUTOINCREMENT counters live in the    *)
(* sqlite_sequence table and are therefore part of the transaction.        *)
(*                                                                         *)
(* Spec      one caller, every handler runs to completion.                 *)
(* SpecConc  threads sharing one live store (check_same_thread=False),     *)
(*           interleaved between the statements of their handlers.         *)
(* SpecQuery the date-range queries of both stores on dated rows.          *)
(* SpecTrade the construction of a Trade record (Domain/objects).          *)
(* SpecPosition, SpecScope, SpecMarket: the quantity an open position is    *)
(*           stored with, a `with` block over a store, the market-data     *)
(*           coverage check.                                               *)
(* SpecDonchian, SpecIndicator, SpecMovement: the indicator functions of   *)
(*           utils/indicators.py in float64 arithmetic.                    *)
(* SpecSignal a Signal stored by insert_signal and read by get_signals.    *)
(***************************************************************************)
EXTENDS Integers, FiniteSets, Sequences, TLC

\* ------------------------------------------------------------------ bounds
\* ids handed out by the store, over all four tables, within one behaviour
MaxRows == 4

\* the latest timestamp of a stored row or of a query bound (SpecQuery)
MaxDate == 10
\* rows in the table a date-range query runs on (SpecQuery)
MaxStored == 3

\* the largest price, quantity, result and commission of a Trade (SpecTrade)
MaxAmount == 2

\* the longest price series and the largest period given to an indicator
\* function (SpecDonchian, SpecIndicator)
MaxBars == 3
MaxPeriod == 3

\* SQL NULL / Python None
NULL == 0

Tables == {"backtest_run", "signal", "open_position", "trade"}

VARIABLES
    backend,         \* which store class was constructed: "live" or "backtest"
    committed,       \* the database file: the last committed tables
    conn,            \* self.conn: the tables as the store's connection sees them
    current_run_id,  \* BacktestDataBaseManager.current_run_id (NULL in the live store)
    ret,             \* outcome of the last handler call
    everOpened,      \* history: ids returned by insert_open_position
    closedIds,       \* history: ids whose row a close_open_position deleted and committed
    pc,              \* SpecConc: position of each thread in its handler
    cursor,          \* SpecConc: self.cursor, shared by every thread
    local,           \* SpecConc: per-thread locals and outcome
    obs,             \* SpecConc: what the polling reader got from its last poll
    opened,          \* the store's connection is open (close() not yet called)
    trade_object,    \* SpecTrade: the Trade dataclass instance being constructed
    query,           \* SpecQuery: dated rows in the tables and the last query's result
    scope,           \* SpecScope: where the caller is in its `with` block over the store
    market,          \* SpecMarket: the market-data store and its last coverage check
    frame            \* SpecIndicator: the DataFrame of bars and the last indicator call

vars == <<backend, committed, conn, current_run_id, ret, everOpened, closedIds,
          pc, cursor, local, obs, opened, trade_object, query, scope, market, frame>>

\* ------------------------------------------------------------------ schema
\* The tables right after _create_tables: all empty, no id handed out yet.
EmptyDb ==
    [backtest_run |-> {}, signal |-> {}, open_position |-> {}, trade |-> {},
     sqlite_sequence |-> [t \in Tables |-> 0]]

RunIds(db) == {r.run_id : r \in db.backtest_run}
SignalIds(db) == {s.signal_id : s \in db.signal}
OpenPositionIds(db) == {p.open_position_id : p \in db.open_position}
TradeIds(db) == {t.trade_id : t \in db.trade}

\* INTEGER PRIMARY KEY AUTOINCREMENT: one more than the largest id ever used,
\* as recorded in sqlite_sequence (which a rollback restores with the rest).
NextRowId(db, table) == db.sqlite_sequence[table] + 1

\* FOREIGN KEY(child) REFERENCES parent: a NULL child is not checked.
ForeignKeyOk(child, parents) == child = NULL \/ child \in parents

\* conn.commit() and conn.rollback(), as functions of (view, file).
Commit(view, file) == [conn |-> view, committed |-> view]
Rollback(view, file) == [conn |-> file, committed |-> file]

Ok(db, id) == [error |-> "none", db |-> db, lastrowid |-> id]
Fail(db, kind) == [error |-> kind, db |-> db, lastrowid |-> NULL]

\* ------------------------------------------------------------ live store
\* signal has no run_id column in the live schema.
Live_insert_signal(db) ==
    LET id == NextRowId(db, "signal")
    IN  Ok([db EXCEPT !.signal = @ \cup {[signal_id |-> id, run_id |-> NULL]},
                      !.sqlite_sequence["signal"] = id], id)

Live_insert_open_position(db, entry_signal_id) ==
    LET id == NextRowId(db, "open_position")
        row == [open_position_id |-> id, run_id |-> NULL,
                entry_signal_id |-> entry_signal_id]
    IN  IF ForeignKeyOk(entry_signal_id, SignalIds(db))
        THEN Ok([db EXCEPT !.open_position = @ \cup {row},
                           !.sqlite_sequence["open_position"] = id], id)
        ELSE Fail(db, "IntegrityError")

\* trade.closes is history only (the open_position_id the caller built the
\* Trade for); the trade table has no such column.
Live_insert_trade(db, trade) ==
    LET id == NextRowId(db, "trade")
        row == [trade_id |-> id, run_id |-> NULL,
                entry_signal_id |-> trade.entry_signal_id,
                exit_signal_id |-> trade.exit_signal_id,
                closes |-> trade.closes]
    IN  IF /\ ForeignKeyOk(trade.entry_signal_id, SignalIds(db))
           /\ ForeignKeyOk(trade.exit_signal_id, SignalIds(db))
        THEN Ok([db EXCEPT !.trade = @ \cup {row},
                           !.sqlite_sequence["trade"] = id], id)
        ELSE Fail(db, "IntegrityError")

\* DELETE FROM open_position WHERE open_position_id = ?
DeleteOpenPosition(db, open_position_id) ==
    LET hit == {p \in db.open_position : p.open_position_id = open_position_id}
    IN  [db |-> [db EXCEPT !.open_position = @ \ hit], rowcount |-> Cardinality(hit)]

\* Outcome of a close_open_position call.
Closed(tx, trade_id, deleted) ==
    [raised |-> "none", conn |-> tx.conn, committed |-> tx.committed,
     value |-> trade_id, deleted |-> deleted]
Raised(tx, kind) ==
    [raised |-> kind, conn |-> tx.conn, committed |-> tx.committed,
     value |-> NULL, deleted |-> 0]

\* Variant of close_open_position that commits whatever the DELETE matched
\* (the "ghost trade" behaviour the rowcount test was added against).
Live_close_open_position_no_rowcount(view, file, open_position_id, trade) ==
    LET ins == Live_insert_trade(view, trade)
        del == DeleteOpenPosition(ins.db, open_position_id)
    IN  IF ins.error # "none" THEN Raised(Rollback(ins.db, file), ins.error)
        ELSE Closed(Commit(del.db, file), ins.lastrowid, del.rowcount)

Live_close_open_position(view, file, open_position_id, trade) ==
    LET ins == Live_insert_trade(view, trade)
        del == DeleteOpenPosition(ins.db, open_position_id)
    IN  IF ins.error # "none" THEN Raised(Rollback(ins.db, file), ins.error)
        ELSE IF del.rowcount = 0 THEN Raised(Rollback(del.db, file), "ValueError")
        ELSE Closed(Commit(del.db, file), ins.lastrowid, del.rowcount)

\* -------------------------------------------------------- backtest store
\* INSERT INTO backtest_run (..., start_time, ...) VALUES (..., now, ...): the
\* end_time column is not named and stays NULL; commit; remember the run.
\* start_time and end_time are NULL or 1 (set).
\* Variant that also stamps end_time at creation.
Backtest_create_backtest_run_ended(view, file) ==
    LET id == NextRowId(view, "backtest_run")
        db == [view EXCEPT !.backtest_run =
                      @ \cup {[run_id |-> id, start_time |-> 1, end_time |-> 1]},
                           !.sqlite_sequence["backtest_run"] = id]
    IN  [tx |-> Commit(db, file), current_run_id |-> id]

Backtest_create_backtest_run(view, file) ==
    LET id == NextRowId(view, "backtest_run")
        db == [view EXCEPT !.backtest_run =
                      @ \cup {[run_id |-> id, start_time |-> 1, end_time |-> NULL]},
                           !.sqlite_sequence["backtest_run"] = id]
    IN  [tx |-> Commit(db, file), current_run_id |-> id]

\* Variant whose UPDATE has no WHERE clause.
Backtest_close_backtest_run_every(view, file, run_id) ==
    LET db == [view EXCEPT !.backtest_run = {[r EXCEPT !.end_time = 1] : r \in @}]
    IN  Commit(db, file)

\* UPDATE backtest_run SET end_time = now WHERE run_id = current_run_id; commit.
\* A run_id that matches no row (None included) updates nothing.
Backtest_close_backtest_run(view, file, run_id) ==
    LET db == [view EXCEPT !.backtest_run =
                  {IF r.run_id = run_id THEN [r EXCEPT !.end_time = 1] ELSE r : r \in @}]
    IN  Commit(db, file)

\* DELETE FROM backtest_run WHERE run_id = ?; commit.  The child tables
\* declare FOREIGN KEY(run_id) REFERENCES backtest_run(run_id) with no
\* ON DELETE action and the connection enforces foreign keys: while any
\* signal, open_position or trade row carries the run_id the DELETE fails
\* (IntegrityError), nothing is deleted and the commit is not reached.
RunChildren(db, run_id) ==
    [signal |-> {x \in db.signal : x.run_id = run_id},
     open_position |-> {x \in db.open_position : x.run_id = run_id},
     trade |-> {x \in db.trade : x.run_id = run_id}]
Backtest_delete_backtest_run(view, file, run_id) ==
    LET kids == RunChildren(view, run_id)
        hit == {r \in view.backtest_run : r.run_id = run_id}
        db == [view EXCEPT !.backtest_run = @ \ hit]
    IN  IF kids.signal \cup kids.open_position \cup kids.trade # {}
        THEN [raised |-> "IntegrityError", tx |-> [conn |-> view, committed |-> file]]
        ELSE [raised |-> "none", tx |-> Commit(db, file)]

\* run_id INTEGER NOT NULL, FOREIGN KEY(run_id) REFERENCES backtest_run(run_id)
RunOk(db, run_id) == run_id # NULL /\ ForeignKeyOk(run_id, RunIds(db))

\* Variant of insert_signal that writes under the id of the newest signal row
\* (INSERT OR REPLACE keyed on an id left on the caller's Signal object).
Backtest_insert_signal_replace(db, run_id) ==
    LET id == IF db.signal = {} THEN NextRowId(db, "signal")
              ELSE db.sqlite_sequence["signal"]
        kept == {x \in db.signal : x.signal_id # id}
    IN  IF RunOk(db, run_id)
        THEN Ok([db EXCEPT !.signal = kept \cup {[signal_id |-> id, run_id |-> run_id]},
                           !.sqlite_sequence["signal"] = id], id)
        ELSE Fail(db, "IntegrityError")

Backtest_insert_signal(db, run_id) ==
    LET id == NextRowId(db, "signal")
    IN  IF RunOk(db, run_id)
        THEN Ok([db EXCEPT !.signal = @ \cup {[signal_id |-> id, run_id |-> run_id]},
                           !.sqlite_sequence["signal"] = id], id)
        ELSE Fail(db, "IntegrityError")

\* Variant of insert_open_position on a connection that does not enforce the
\* entry_signal_id foreign key.
Backtest_insert_open_position_no_fk(db, run_id, entry_signal_id) ==
    LET id == NextRowId(db, "open_position")
        row == [open_position_id |-> id, run_id |-> run_id,
                entry_signal_id |-> entry_signal_id]
    IN  IF RunOk(db, run_id)
        THEN Ok([db EXCEPT !.open_position = @ \cup {row},
                           !.sqlite_sequence["open_position"] = id], id)
        ELSE Fail(db, "IntegrityError")

Backtest_insert_open_position(db, run_id, entry_signal_id) ==
    LET id == NextRowId(db, "open_position")
        row == [open_position_id |-> id, run_id |-> run_id,
                entry_signal_id |-> entry_signal_id]
    IN  IF RunOk(db, run_id) /\ ForeignKeyOk(entry_signal_id, SignalIds(db))
        THEN Ok([db EXCEPT !.open_position = @ \cup {row},
                           !.sqlite_sequence["open_position"] = id], id)
        ELSE Fail(db, "IntegrityError")

\* Variant of _insert_trade on a connection that does not enforce the two
\* signal foreign keys of the trade table.
Backtest_insert_trade_no_fk(db, run_id, trade) ==
    LET id == NextRowId(db, "trade")
        row == [trade_id |-> id, run_id |-> run_id,
                entry_signal_id |-> trade.entry_signal_id,
                exit_signal_id |-> trade.exit_signal_id,
                closes |-> trade.closes]
    IN  IF RunOk(db, run_id)
        THEN Ok([db EXCEPT !.trade = @ \cup {row},
                           !.sqlite_sequence["trade"] = id], id)
        ELSE Fail(db, "IntegrityError")

Backtest_insert_trade(db, run_id, trade) ==
    LET id == NextRowId(db, "trade")
        row == [trade_id |-> id, run_id |-> run_id,
                entry_signal_id |-> trade.entry_signal_id,
                exit_signal_id |-> trade.exit_signal_id,
                closes |-> trade.closes]
    IN  IF /\ RunOk(db, run_id)
           /\ ForeignKeyOk(trade.entry_signal_id, SignalIds(db))
           /\ ForeignKeyOk(trade.exit_signal_id, SignalIds(db))
        THEN Ok([db EXCEPT !.trade = @ \cup {row},
                           !.sqlite_sequence["trade"] = id], id)
        ELSE Fail(db, "IntegrityError")

\* Variant of close_open_position that returns without conn.commit().
Backtest_close_open_position_uncommitted(view, file, run_id, open_position_id, trade) ==
    LET ins == Backtest_insert_trade(view, run_id, trade)
        del == DeleteOpenPosition(ins.db, open_position_id)
    IN  IF ins.error # "none" THEN Raised(Rollback(ins.db, file), ins.error)
        ELSE Closed([conn |-> del.db, committed |-> file], ins.lastrowid, del.rowcount)

\* No rowcount test here: the commit follows the DELETE whatever it matched.
Backtest_close_open_position(view, file, run_id, open_position_id, trade) ==
    LET ins == Backtest_insert_trade(view, run_id, trade)
        del == DeleteOpenPosition(ins.db, open_position_id)
    IN  IF ins.error # "none" THEN Raised(Rollback(ins.db, file), ins.error)
        ELSE Closed(Commit(del.db, file), ins.lastrowid, del.rowcount)

\* ----------------------------------------------------------------- queries
\* What a query method returns is read through self.cursor, i.e. from the
\* connection's own view, pending rows included.
Live_get_open_positions(db) == db.open_position

\* A timestamp is bound, and was stored, through sqlite3's datetime adapter:
\* ISO text of fixed width, zero padded.  The date columns are declared
\* TIMESTAMP, whose values SQLite keeps and compares as TEXT, byte by byte.
\* Timestamps are the integers of Dates; their text is two decimal digits.
Adapt(date) == <<date \div 10, date % 10>>
TextLess(a, b) ==
    \/ \E i \in 1 .. Len(a) :
          /\ i <= Len(b)
          /\ a[i] < b[i]
          /\ \A j \in 1 .. (i - 1) : a[j] = b[j]
    \/ /\ Len(a) < Len(b)
       /\ \A j \in 1 .. Len(a) : a[j] = b[j]
\* column >= ?   and   column <= ?
Ge(column, param) == ~ TextLess(Adapt(column), Adapt(param))
Le(column, param) == ~ TextLess(Adapt(param), Adapt(column))

\* Variant of get_signals whose lower bound is exclusive (date > ?).
Live_get_signals_exclusive(db, start_date, end_date) ==
    IF start_date # NULL /\ end_date # NULL
    THEN {x \in db.signal : ~ Le(x.date, start_date) /\ Le(x.date, end_date)}
    ELSE IF start_date # NULL THEN {x \in db.signal : ~ Le(x.date, start_date)}
    ELSE IF end_date # NULL THEN {x \in db.signal : Le(x.date, end_date)}
    ELSE db.signal

\* get_signals: "if start_date and end_date / elif start_date / elif end_date"
Live_get_signals(db, start_date, end_date) ==
    IF start_date # NULL /\ end_date # NULL
    THEN {x \in db.signal : Ge(x.date, start_date) /\ Le(x.date, end_date)}
    ELSE IF start_date # NULL THEN {x \in db.signal : Ge(x.date, start_date)}
    ELSE IF end_date # NULL THEN {x \in db.signal : Le(x.date, end_date)}
    ELSE db.signal

\* get_trades: WHERE entry_date >= ? AND exit_date <= ?
Live_get_trades(db, start_date, end_date) ==
    IF start_date # NULL /\ end_date # NULL
    THEN {x \in db.trade : Ge(x.entry_date, start_date) /\ Le(x.exit_date, end_date)}
    ELSE IF start_date # NULL THEN {x \in db.trade : Ge(x.entry_date, start_date)}
    ELSE IF end_date # NULL THEN {x \in db.trade : Le(x.exit_date, end_date)}
    ELSE db.trade

\* Variant of get_signals_for_run whose SELECT has no run_id condition.
Backtest_get_signals_for_run_unscoped(db, run_id, start_date, end_date) ==
    {x \in db.signal :
        /\ start_date # NULL => Ge(x.date, start_date)
        /\ end_date # NULL => Le(x.date, end_date)}

\* get_signals_for_run: WHERE run_id = ? [AND date >= ?] [AND date <= ?]
Backtest_get_signals_for_run(db, run_id, start_date, end_date) ==
    {x \in db.signal :
        /\ x.run_id = run_id
        /\ start_date # NULL => Ge(x.date, start_date)
        /\ end_date # NULL => Le(x.date, end_date)}

Backtest_get_open_positions_for_run(db, run_id) ==
    {p \in db.open_position : p.run_id = run_id}

\* get_trades_for_run: WHERE run_id = ? [AND exit_date >= ?] [AND exit_date <= ?]
Backtest_get_trades_for_run(db, run_id, start_date, end_date) ==
    {x \in db.trade :
        /\ x.run_id = run_id
        /\ start_date # NULL => Ge(x.exit_date, start_date)
        /\ end_date # NULL => Le(x.exit_date, end_date)}

\* ------------------------------------------------------- one caller: Spec
Backends == {"live", "backtest"}

\* Threads of SpecConc; under Spec they never leave "idle".
Closers == {"c1", "c2"}
Threads == Closers \cup {"reader"}
\* cursor.dirty and obs.dirty are history: the rows of the result that were not
\* committed when the SELECT ran.  obs.seen is the connection's view when the
\* poll began, obs.same_state whether both queries of the poll ran on that view.
IdleCursor == [rowcount |-> 0 - 1, lastrowid |-> NULL, rows |-> {}, dirty |-> {}]
IdleLocal == [t \in Closers |-> [open_position_id |-> NULL, trade_id |-> NULL,
                                 raised |-> "none"]]
IdleObs == [trades |-> {}, open_positions |-> {}, dirty |-> {},
            seen |-> EmptyDb, same_state |-> FALSE]

\* Before the first construction, and the first query, of SpecTrade / SpecQuery.
NoTrade == [built |-> FALSE]
NoQuery == [asked |-> FALSE]

\* No `with` block entered; the market-data tables as create_tables leaves
\* them and no coverage check made; no indicator called.
NoScope == [at |-> "outside", exc |-> "none", propagated |-> "none"]
NoMarket == [checked |-> FALSE, calendar |-> {}, ohlcv |-> {}]
NoFrame == [called |-> FALSE]

NoCall == [op |-> "init", raised |-> "none", value |-> NULL, arg |-> NULL]
Call(op, raised, value, arg) == [op |-> op, raised |-> raised, value |-> value, arg |-> arg]

\* __init__ of either store: tables created and committed, no run selected.
Init ==
    /\ backend \in Backends
    /\ committed = EmptyDb
    /\ conn = EmptyDb
    /\ current_run_id = NULL
    /\ ret = NoCall
    /\ everOpened = {}
    /\ closedIds = {}
    /\ pc = [t \in Threads |-> "idle"]
    /\ cursor = IdleCursor
    /\ local = IdleLocal
    /\ obs = IdleObs
    /\ opened = TRUE
    /\ trade_object = NoTrade
    /\ query = NoQuery
    /\ scope = NoScope
    /\ market = NoMarket
    /\ frame = NoFrame

\* Ids a caller may pass: NULL, the ids handed out so far (rows that exist,
\* rows that were deleted) and the next one (an id of no row).
SignalIdArgs(db) == 0 .. NextRowId(db, "signal")
PositionIdArgs(db) == 1 .. NextRowId(db, "open_position")

\* The store can still hand out an id.
RowsUsed(db) ==
    db.sqlite_sequence["backtest_run"] + db.sqlite_sequence["signal"]
        + db.sqlite_sequence["open_position"] + db.sqlite_sequence["trade"]
Room(db) == RowsUsed(db) < MaxRows

create_backtest_run ==
    /\ opened
    /\ backend = "backtest"
    /\ Room(conn)
    /\ LET r == Backtest_create_backtest_run(conn, committed)
       IN  /\ conn' = r.tx.conn
           /\ committed' = r.tx.committed
           /\ current_run_id' = r.current_run_id
           /\ ret' = Call("create_backtest_run", "none", r.current_run_id, NULL)
    /\ UNCHANGED <<scope, market, frame, opened, trade_object, query, backend, everOpened, closedIds, pc, cursor, local, obs>>

close_backtest_run ==
    /\ opened
    /\ backend = "backtest"
    /\ LET tx == Backtest_close_backtest_run(conn, committed, current_run_id)
       IN  /\ conn' = tx.conn
           /\ committed' = tx.committed
    /\ ret' = Call("close_backtest_run", "none", NULL, current_run_id)
    /\ UNCHANGED <<scope, market, frame, opened, trade_object, query, backend, current_run_id, everOpened, closedIds, pc, cursor, local, obs>>

\* Variant of insert_signal that commits after its INSERT.
insert_signal_autocommit ==
    /\ opened
    /\ Room(conn)
    /\ LET r == IF backend = "live" THEN Live_insert_signal(conn)
                ELSE Backtest_insert_signal(conn, current_run_id)
           tx == IF r.error = "none" THEN Commit(r.db, committed)
                 ELSE [conn |-> r.db, committed |-> committed]
       IN  /\ conn' = tx.conn
           /\ committed' = tx.committed
           /\ ret' = Call("insert_signal", r.error, r.lastrowid, NULL)
    /\ UNCHANGED <<scope, market, frame, opened, trade_object, query, backend, current_run_id, everOpened,
                   closedIds, pc, cursor, local, obs>>

insert_signal ==
    /\ opened
    /\ Room(conn)
    /\ LET r == IF backend = "live" THEN Live_insert_signal(conn)
                ELSE Backtest_insert_signal(conn, current_run_id)
       IN  /\ conn' = r.db
           /\ ret' = Call("insert_signal", r.error, r.lastrowid, NULL)
    /\ UNCHANGED <<scope, market, frame, opened, trade_object, query, backend, committed, current_run_id, everOpened, closedIds,
                   pc, cursor, local, obs>>

insert_open_position ==
    /\ opened
    /\ Room(conn)
    /\ \E entry_signal_id \in SignalIdArgs(conn) :
         LET r == IF backend = "live" THEN Live_insert_open_position(conn, entry_signal_id)
                  ELSE Backtest_insert_open_position(conn, current_run_id, entry_signal_id)
         IN  /\ conn' = r.db
             /\ ret' = Call("insert_open_position", r.error, r.lastrowid, entry_signal_id)
             /\ everOpened' = IF r.error = "none" THEN everOpened \cup {r.lastrowid}
                              ELSE everOpened
    /\ UNCHANGED <<scope, market, frame, opened, trade_object, query, backend, committed, current_run_id, closedIds, pc, cursor, local, obs>>

close_open_position ==
    /\ opened
    /\ Room(conn)
    /\ \E open_position_id \in PositionIdArgs(conn),
          entry \in SignalIdArgs(conn), exit \in SignalIdArgs(conn) :
         LET trade == [entry_signal_id |-> entry, exit_signal_id |-> exit,
                       closes |-> open_position_id]
             r == IF backend = "live"
                  THEN Live_close_open_position(conn, committed, open_position_id, trade)
                  ELSE Backtest_close_open_position(conn, committed, current_run_id,
                                                    open_position_id, trade)
         IN  /\ conn' = r.conn
             /\ committed' = r.committed
             /\ ret' = Call("close_open_position", r.raised, r.value, open_position_id)
             /\ closedIds' = IF r.raised = "none" /\ r.deleted > 0
                             THEN closedIds \cup {open_position_id} ELSE closedIds
    /\ UNCHANGED <<scope, market, frame, opened, trade_object, query, backend, current_run_id, everOpened, pc, cursor, local, obs>>

commit ==
    /\ opened
    /\ LET tx == Commit(conn, committed)
       IN  /\ conn' = tx.conn
           /\ committed' = tx.committed
    /\ ret' = Call("commit", "none", NULL, NULL)
    /\ UNCHANGED <<scope, market, frame, opened, trade_object, query, backend, current_run_id, everOpened, closedIds, pc, cursor, local, obs>>

\* The stress test's raw DELETE of a run through the store's cursor, then
\* commit().  When the DELETE raises the test stops there: no commit.
RunIdArgs(db) == 1 .. NextRowId(db, "backtest_run")
delete_backtest_run ==
    /\ opened
    /\ backend = "backtest"
    /\ \E run_id \in RunIdArgs(conn) :
         LET r == Backtest_delete_backtest_run(conn, committed, run_id)
         IN  /\ conn' = r.tx.conn
             /\ committed' = r.tx.committed
             /\ ret' = Call("delete_backtest_run", r.raised, NULL, run_id)
    /\ UNCHANGED <<scope, market, frame, opened, trade_object, query, backend, current_run_id, everOpened,
                   closedIds, pc, cursor, local, obs>>

\* close() (also __exit__ of a `with` block): sqlite3 discards the pending
\* transaction of a connection that is closed without a commit.
close ==
    /\ opened
    /\ opened' = FALSE
    /\ conn' = committed
    /\ ret' = Call("close", "none", NULL, NULL)
    /\ UNCHANGED <<scope, market, frame, trade_object, query, backend, committed, current_run_id, everOpened,
                   closedIds, pc, cursor, local, obs>>

\* __init__ on the db_path of a store that was closed: a new connection sees
\* what was committed; CREATE TABLE IF NOT EXISTS changes nothing; the
\* backtest store starts with no current run.
connect ==
    /\ ~opened
    /\ opened' = TRUE
    /\ conn' = committed
    /\ current_run_id' = NULL
    /\ ret' = Call("connect", "none", NULL, NULL)
    /\ UNCHANGED <<scope, market, frame, trade_object, query, backend, committed, everOpened,
                   closedIds, pc, cursor, local, obs>>

Next ==
    \/ create_backtest_run
    \/ close_backtest_run
    \/ delete_backtest_run
    \/ insert_signal
    \/ insert_open_position
    \/ close_open_position
    \/ commit
    \/ close
    \/ connect

Spec == Init /\ [][Next]_vars

\* ------------------------------------------------- claims checked under Spec
\* A step of the named handler: every handler records itself in ret.
CloseStep == ret'.op = "close_open_position"
\* Rows of a run as the store's run queries, called without date bounds, return
\* them (the live store has one implicit run: its rows carry no run_id).
SignalsOfRun(db, run_id) == Backtest_get_signals_for_run(db, run_id, NULL, NULL)
PositionsOfRun(db, run_id) == Backtest_get_open_positions_for_run(db, run_id)
TradesOfRun(db, run_id) == Backtest_get_trades_for_run(db, run_id, NULL, NULL)
RowsUnchanged ==
    /\ conn'.signal = conn.signal
    /\ conn'.open_position = conn.open_position
    /\ conn'.trade = conn.trade

\* C1: a close_open_position on an id that is open and that returns a trade_id
\* leaves the committed store with the new Trade row and without that
\* OpenPosition row; for the run owning the position the open-position count
\* drops by one and the trade count rises by one; no other position or trade
\* row is added or removed.
C1_AtomicClose ==
    [][ (CloseStep /\ ret'.raised = "none" /\ ret'.arg \in OpenPositionIds(conn)) =>
          LET p == CHOOSE q \in conn.open_position : q.open_position_id = ret'.arg
          IN  /\ ret'.value \in TradeIds(committed')
              /\ ret'.arg \notin OpenPositionIds(committed')
              /\ Cardinality(PositionsOfRun(conn', p.run_id))
                    = Cardinality(PositionsOfRun(conn, p.run_id)) - 1
              /\ Cardinality(TradesOfRun(conn', p.run_id))
                    = Cardinality(TradesOfRun(conn, p.run_id)) + 1
              /\ conn'.open_position = conn.open_position \ {p}
              /\ \E new \in conn'.trade :
                    /\ new.trade_id = ret'.value
                    /\ new \notin conn.trade
                    /\ conn'.trade = conn.trade \cup {new} ]_vars

\* C2: in the live store a close_open_position on an id that matches no
\* open_position row raises, and the trade table, pending and committed, is
\* what it was before the call.
C2_LiveUnknownIdRollsBack ==
    [][ (backend = "live" /\ CloseStep /\ ret'.arg \notin OpenPositionIds(conn)) =>
          /\ ret'.raised # "none"
          /\ conn'.trade = conn.trade
          /\ committed'.trade = committed.trade
          /\ Cardinality(conn'.trade) = Cardinality(conn.trade) ]_vars

C2_Witness ==
    /\ backend = "live"
    /\ ret.op = "close_open_position"
    /\ ret.raised = "ValueError"
    /\ ret.arg \notin OpenPositionIds(conn)
    /\ conn.trade # {}

\* C3: in the backtest store a close_open_position on an id that matches no
\* open_position row raises and persists no Trade row.
C3_BacktestUnknownIdFails ==
    [][ (backend = "backtest" /\ CloseStep /\ ret'.arg \notin OpenPositionIds(conn)) =>
          /\ ret'.raised # "none"
          /\ conn'.trade = conn.trade
          /\ committed'.trade = committed.trade ]_vars

\* C4: a close_open_position that fails because the id is unknown leaves every
\* signal, open position and trade that was readable before the call readable,
\* pending rows included, and nothing else.
C4_FailedCloseChangesNothing ==
    [][ (CloseStep /\ ret'.raised = "ValueError") => RowsUnchanged ]_vars

\* C5: every Trade row comes from closing one distinct position that was open:
\* as many Trade rows as positions opened and since closed, never more than
\* positions ever opened.
C5_TradeIsOneClosedPosition ==
    /\ \A t \in conn.trade : t.closes \in closedIds
    /\ \A t1, t2 \in conn.trade : t1.closes = t2.closes => t1 = t2
    /\ Cardinality(conn.trade) = Cardinality(closedIds)
    /\ Cardinality(conn.trade) <= Cardinality(everOpened)

\* C6: once close_open_position(id) has succeeded, a later close_open_position
\* on the same id fails and adds no Trade, and the position is never open again.
C6_ClosedAtMostOnce ==
    [][ /\ (CloseStep /\ ret'.arg \in closedIds) =>
              (ret'.raised # "none" /\ conn'.trade = conn.trade)
        /\ closedIds' \cap OpenPositionIds(conn') = {} ]_vars

\* C10: insert_open_position with an entry_signal_id that is the id of no
\* Signal, and insert_signal / insert_open_position of the backtest store while
\* no Run exists, raise and add no row.
C10_DanglingParentFailsFast ==
    [][ /\ (/\ ret'.op = "insert_open_position"
            /\ ret'.arg # NULL
            /\ ret'.arg \notin SignalIds(conn)) =>
               (ret'.raised # "none" /\ conn' = conn /\ committed' = committed)
        /\ (/\ backend = "backtest"
            /\ ret'.op \in {"insert_signal", "insert_open_position"}
            /\ RunIds(conn) = {}) =>
               (ret'.raised # "none" /\ conn' = conn /\ committed' = committed) ]_vars

C10_Witness ==
    /\ backend = "backtest"
    /\ current_run_id \in RunIds(conn)
    /\ ret.op = "insert_open_position"
    /\ ret.raised = "IntegrityError"
    /\ ret.arg # NULL
    /\ ret.arg \notin SignalIds(conn)

\* C11: deleting a Run that exists succeeds; afterwards the run is gone, no
\* signal, open_position or trade row carries its run_id, and the rows of
\* every other run are what they were.
NoChildren == [signal |-> {}, open_position |-> {}, trade |-> {}]
C11_DeleteRunCascades ==
    [][ (ret'.op = "delete_backtest_run" /\ ret'.arg \in RunIds(conn)) =>
          /\ ret'.raised = "none"
          /\ ret'.arg \notin RunIds(conn')
          /\ RunChildren(conn', ret'.arg) = NoChildren
          /\ \A R \in RunIds(conn) \ {ret'.arg} :
                /\ R \in RunIds(conn')
                /\ RunChildren(conn', R) = RunChildren(conn, R) ]_vars

\* C12: insert_signal and insert_open_position do not commit.  Right after a
\* successful call the new row is readable through the store and is not in the
\* database file; a close() of the store, a construction of a store on the
\* file, and a rollback leave no row that was not committed; a commit() makes
\* every readable row durable.
PendingSignalIds == SignalIds(conn) \ SignalIds(committed)
PendingPositionIds == OpenPositionIds(conn) \ OpenPositionIds(committed)
RolledBack == ret'.op = "close_open_position" /\ ret'.raised # "none"
C12_InsertsNeedCommit ==
    [][ /\ (ret'.op = "insert_signal" /\ ret'.raised = "none") =>
              /\ ret'.value \in SignalIds(conn')
              /\ ret'.value \notin SignalIds(committed')
              /\ committed' = committed
        /\ (ret'.op = "insert_open_position" /\ ret'.raised = "none") =>
              /\ ret'.value \in OpenPositionIds(conn')
              /\ ret'.value \notin OpenPositionIds(committed')
              /\ committed' = committed
        /\ (ret'.op \in {"close", "connect"} \/ RolledBack) =>
              /\ PendingSignalIds \cap (SignalIds(conn') \cup SignalIds(committed')) = {}
              /\ PendingPositionIds
                    \cap (OpenPositionIds(conn') \cup OpenPositionIds(committed')) = {}
              /\ committed' = committed
        /\ ret'.op = "commit" =>
              /\ conn'.signal = conn.signal /\ committed'.signal = conn.signal
              /\ conn'.open_position = conn.open_position
              /\ committed'.open_position = conn.open_position ]_vars

\* A position was inserted, the store was closed without a commit, and the
\* position is in no table.
C12_Witness ==
    /\ ret.op = "close"
    /\ ~opened
    /\ everOpened # {}
    /\ closedIds = {}
    /\ conn.signal = {}
    /\ conn.open_position = {}
    /\ conn.trade = {}

\* C13: create_backtest_run returns the id of a new, committed Run row with
\* start_time set and end_time NULL; the end_time of a run changes only in a
\* close_backtest_run for that run, which sets it and touches no other run.
C13_RunLifecycle ==
    [][ /\ ret'.op = "create_backtest_run" =>
              /\ ret'.value \notin RunIds(conn)
              /\ [run_id |-> ret'.value, start_time |-> 1, end_time |-> NULL]
                    \in committed'.backtest_run
        /\ \A r \in conn.backtest_run : \A r2 \in conn'.backtest_run :
              (r2.run_id = r.run_id /\ r2 # r) =>
                  /\ ret'.op = "close_backtest_run"
                  /\ ret'.arg = r.run_id
                  /\ r2 = [r EXCEPT !.end_time = 1]
        /\ (ret'.op = "close_backtest_run" /\ ret'.arg \in RunIds(conn)) =>
              \E r \in committed'.backtest_run :
                  r.run_id = ret'.arg /\ r.end_time = 1 /\ r \in conn'.backtest_run ]_vars

\* Two runs: the one closed has its end_time, the other still has none.
C13_Witness ==
    /\ ret.op = "close_backtest_run"
    /\ \E r1, r2 \in committed.backtest_run :
          /\ r1.run_id = ret.arg /\ r1.end_time = 1 /\ r1.start_time = 1
          /\ r2.run_id # ret.arg /\ r2.end_time = NULL

\* C14: close_backtest_run while the current run is the id of no Run row (no
\* run created, or the row is gone) raises nothing and changes no Run row.
C14_CloseUnknownRunIsNoOp ==
    [][ (ret'.op = "close_backtest_run" /\ ret'.arg \notin RunIds(conn)) =>
          /\ ret'.raised = "none"
          /\ conn'.backtest_run = conn.backtest_run
          /\ committed'.backtest_run = committed.backtest_run ]_vars

C14_Witness ==
    /\ ret.op = "close_backtest_run"
    /\ ret.raised = "none"
    /\ ret.arg \notin RunIds(conn)
    /\ \E r \in conn.backtest_run : r.end_time = NULL

\* C15: the run queries are scoped.  A signal or open position just inserted,
\* and the trade just stored by a close, is returned by the query for the run
\* that is current and by the query for no other run; a row that stays in its
\* table is returned for the same runs after the step as before it, whatever
\* runs are created meanwhile; a position is returned until its row is deleted.
Ids(rows, key) == {x[key] : x \in rows}
StaysScoped(before, after, key, R) ==
    \A id \in Ids(before, key) \cap Ids(after, key) :
        (id \in Ids({x \in after : x.run_id = R}, key))
            <=> (id \in Ids({x \in before : x.run_id = R}, key))
C15_QueriesScopedToRun ==
    [][ backend = "backtest" =>
        /\ (ret'.op = "insert_signal" /\ ret'.raised = "none") =>
              \A R \in RunIds(conn') :
                  (ret'.value \in Ids(SignalsOfRun(conn', R), "signal_id"))
                      <=> (R = current_run_id)
        /\ (ret'.op = "insert_open_position" /\ ret'.raised = "none") =>
              \A R \in RunIds(conn') :
                  (ret'.value \in Ids(PositionsOfRun(conn', R),
                                      "open_position_id"))
                      <=> (R = current_run_id)
        /\ (CloseStep /\ ret'.raised = "none") =>
              \A R \in RunIds(conn') :
                  (ret'.value \in Ids(TradesOfRun(conn', R), "trade_id"))
                      <=> (R = current_run_id)
        /\ \A R \in RunIds(conn) \cup RunIds(conn') :
              /\ SignalsOfRun(conn', R) \subseteq conn'.signal
              /\ PositionsOfRun(conn', R) \subseteq conn'.open_position
              /\ TradesOfRun(conn', R) \subseteq conn'.trade
              /\ \A id \in SignalIds(conn) \cap SignalIds(conn') :
                    (id \in Ids(SignalsOfRun(conn', R), "signal_id"))
                        <=> (id \in Ids(SignalsOfRun(conn, R), "signal_id"))
              /\ StaysScoped(conn.open_position, conn'.open_position, "open_position_id", R)
              /\ StaysScoped(conn.trade, conn'.trade, "trade_id", R) ]_vars

\* Signals of two runs are stored; each run's query returns its own.
C15_Witness ==
    /\ backend = "backtest"
    /\ ret.op = "insert_signal"
    /\ ret.raised = "none"
    /\ \E R1, R2 \in RunIds(conn) :
          /\ R1 # R2
          /\ SignalsOfRun(conn, R1) # {}
          /\ SignalsOfRun(conn, R2) # {}
          /\ SignalsOfRun(conn, R1)
                \cap SignalsOfRun(conn, R2) = {}

\* C16: no step changes an attribute of a Signal row that exists, in the
\* connection's view or in the database file: a row with the same signal_id
\* after the step is the same row.
C16_SignalsAreImmutable ==
    [][ /\ \A x \in conn.signal : \A y \in conn'.signal :
              y.signal_id = x.signal_id => y = x
        /\ \A x \in committed.signal : \A y \in committed'.signal :
              y.signal_id = x.signal_id => y = x ]_vars

\* A signal referenced by a trade has been through inserts and a close.
C16_Witness ==
    /\ ret.op = "close_open_position"
    /\ ret.raised = "none"
    /\ \E t \in conn.trade : \E x \in committed.signal :
          /\ t.entry_signal_id = x.signal_id
          /\ t.run_id # x.run_id

\* -------------------------------------------------------- claim C30 (Spec)
\* C30: an OpenPosition stays in the store from the insert_open_position that
\* returned its id until a close_open_position on that id succeeds: across
\* inserts, commits, run creation and closing, and close_open_position calls
\* that fail or name another id, no open position disappears.
OtherOperations ==
    {"insert_signal", "insert_open_position", "commit", "create_backtest_run",
     "close_backtest_run", "close_open_position"}
C30_OpenUntilOwnClose ==
    [][ ret'.op \in OtherOperations =>
          \A id \in OpenPositionIds(conn) :
              id \notin OpenPositionIds(conn') =>
                  (CloseStep /\ ret'.arg = id /\ ret'.raised = "none") ]_vars

\* ------------------------------------- threads on one live store: SpecConc
\* LiveTraderDataBaseManager opens its connection with check_same_thread=False
\* and takes no lock: threads calling its methods share self.conn and
\* self.cursor and may be switched between any two statements of a handler.
\* Two threads call close_open_position; a third polls get_trades and
\* get_open_positions.

\* The store after insert_open_position(entry_signal_id = None) and commit().
OnePositionDb == Live_insert_open_position(EmptyDb, NULL).db

InitConc ==
    /\ backend = "live"
    /\ committed = OnePositionDb
    /\ conn = OnePositionDb
    /\ current_run_id = NULL
    /\ ret = NoCall
    /\ everOpened = OpenPositionIds(OnePositionDb)
    /\ closedIds = {}
    /\ pc = [t \in Threads |-> IF t \in Closers THEN "insert_trade" ELSE "select_trades"]
    /\ cursor = IdleCursor
    /\ \E ids \in [Closers -> PositionIdArgs(OnePositionDb)] :
         local = [t \in Closers |-> [open_position_id |-> ids[t], trade_id |-> NULL,
                                     raised |-> "none"]]
    /\ obs = IdleObs
    /\ opened = TRUE
    /\ trade_object = NoTrade
    /\ query = NoQuery
    /\ scope = NoScope
    /\ market = NoMarket
    /\ frame = NoFrame

Goto(t, label) == pc' = [pc EXCEPT ![t] = label]

\* cursor.execute of an INSERT/UPDATE/DELETE: no result rows are left to fetch.
Written(rowcount, lastrowid) ==
    [rowcount |-> rowcount, lastrowid |-> lastrowid, rows |-> {}, dirty |-> {}]
\* cursor.execute of a SELECT: rowcount is -1, lastrowid keeps its value.
Selected(rows, committedRows) ==
    [rowcount |-> 0 - 1, lastrowid |-> cursor.lastrowid, rows |-> rows,
     dirty |-> rows \ committedRows]

\* _insert_trade: self.cursor.execute(INSERT INTO trade ...)
close_insert_trade(t) ==
    /\ pc[t] = "insert_trade"
    /\ LET trade == [entry_signal_id |-> NULL, exit_signal_id |-> NULL,
                     closes |-> local[t].open_position_id]
           r == Live_insert_trade(conn, trade)
       IN  IF r.error = "none"
           THEN /\ conn' = r.db
                /\ cursor' = Written(1, r.lastrowid)
                /\ Goto(t, "lastrowid")
                /\ UNCHANGED local
           ELSE /\ local' = [local EXCEPT ![t].raised = r.error]
                /\ Goto(t, "rollback")
                /\ UNCHANGED <<conn, cursor>>
    /\ UNCHANGED <<scope, market, frame, opened, trade_object, query, backend, committed, current_run_id, ret, everOpened, closedIds, obs>>

\* _insert_trade: trade.trade_id = cur.lastrowid
close_read_lastrowid(t) ==
    /\ pc[t] = "lastrowid"
    /\ local' = [local EXCEPT ![t].trade_id = cursor.lastrowid]
    /\ Goto(t, "delete")
    /\ UNCHANGED <<scope, market, frame, opened, trade_object, query, backend, committed, conn, current_run_id, ret, everOpened, closedIds,
                   cursor, obs>>

\* self.cursor.execute(DELETE FROM open_position WHERE open_position_id = ?)
close_delete(t) ==
    /\ pc[t] = "delete"
    /\ LET del == DeleteOpenPosition(conn, local[t].open_position_id)
       IN  /\ conn' = del.db
           /\ cursor' = Written(del.rowcount, cursor.lastrowid)
    /\ Goto(t, "rowcount")
    /\ UNCHANGED <<scope, market, frame, opened, trade_object, query, backend, committed, current_run_id, ret, everOpened, closedIds,
                   local, obs>>

\* if self.cursor.rowcount == 0: raise ValueError
close_check_rowcount(t) ==
    /\ pc[t] = "rowcount"
    /\ IF cursor.rowcount = 0
       THEN /\ local' = [local EXCEPT ![t].raised = "ValueError"]
            /\ Goto(t, "rollback")
       ELSE /\ Goto(t, "commit")
            /\ UNCHANGED local
    /\ UNCHANGED <<scope, market, frame, opened, trade_object, query, backend, committed, conn, current_run_id, ret, everOpened, closedIds,
                   cursor, obs>>

\* self.conn.commit(); return trade_id
close_commit(t) ==
    /\ pc[t] = "commit"
    /\ LET tx == Commit(conn, committed)
       IN  /\ conn' = tx.conn
           /\ committed' = tx.committed
    /\ Goto(t, "returned")
    /\ UNCHANGED <<scope, market, frame, opened, trade_object, query, backend, current_run_id, ret, everOpened, closedIds, cursor, local, obs>>

\* except: self.conn.rollback(); raise e
close_rollback(t) ==
    /\ pc[t] = "rollback"
    /\ LET tx == Rollback(conn, committed)
       IN  /\ conn' = tx.conn
           /\ committed' = tx.committed
    /\ Goto(t, "raised")
    /\ UNCHANGED <<scope, market, frame, opened, trade_object, query, backend, current_run_id, ret, everOpened, closedIds, cursor, local, obs>>

\* get_trades(): self.cursor.execute("SELECT * FROM trade")
reader_select_trades ==
    /\ pc["reader"] = "select_trades"
    /\ cursor' = Selected(conn.trade, committed.trade)
    /\ obs' = [obs EXCEPT !.seen = conn, !.same_state = FALSE]
    /\ Goto("reader", "fetch_trades")
    /\ UNCHANGED <<scope, market, frame, opened, trade_object, query, backend, committed, conn, current_run_id, ret, everOpened, closedIds,
                   local>>

\* get_trades(): rows = self.cursor.fetchall()
reader_fetch_trades ==
    /\ pc["reader"] = "fetch_trades"
    /\ obs' = [obs EXCEPT !.trades = cursor.rows, !.open_positions = {},
                          !.dirty = cursor.dirty]
    /\ cursor' = [cursor EXCEPT !.rows = {}, !.dirty = {}]
    /\ Goto("reader", "select_open_positions")
    /\ UNCHANGED <<scope, market, frame, opened, trade_object, query, backend, committed, conn, current_run_id, ret, everOpened, closedIds,
                   local>>

\* get_open_positions(): self.cursor.execute("SELECT * FROM open_position")
reader_select_open_positions ==
    /\ pc["reader"] = "select_open_positions"
    /\ cursor' = Selected(Live_get_open_positions(conn), committed.open_position)
    /\ obs' = [obs EXCEPT !.same_state = (conn = obs.seen)]
    /\ Goto("reader", "fetch_open_positions")
    /\ UNCHANGED <<scope, market, frame, opened, trade_object, query, backend, committed, conn, current_run_id, ret, everOpened, closedIds,
                   local>>

\* get_open_positions(): rows = self.cursor.fetchall()
reader_fetch_open_positions ==
    /\ pc["reader"] = "fetch_open_positions"
    /\ obs' = [obs EXCEPT !.open_positions = cursor.rows,
                          !.dirty = @ \cup cursor.dirty]
    /\ cursor' = [cursor EXCEPT !.rows = {}, !.dirty = {}]
    /\ Goto("reader", "select_trades")
    /\ UNCHANGED <<scope, market, frame, opened, trade_object, query, backend, committed, conn, current_run_id, ret, everOpened, closedIds,
                   local>>

NextConc ==
    \/ \E t \in Closers : close_insert_trade(t)
    \/ \E t \in Closers : close_read_lastrowid(t)
    \/ \E t \in Closers : close_delete(t)
    \/ \E t \in Closers : close_check_rowcount(t)
    \/ \E t \in Closers : close_commit(t)
    \/ \E t \in Closers : close_rollback(t)
    \/ reader_select_trades
    \/ reader_fetch_trades
    \/ reader_select_open_positions
    \/ reader_fetch_open_positions

SpecConc == InitConc /\ [][NextConc]_vars

\* --------------------------------------------- claims checked under SpecConc
BothClose(id) == \A t \in Closers : local[t].open_position_id = id
Finished(t) == pc[t] \in {"returned", "raised"}

\* C7: two concurrent close_open_position calls on the same open id: whatever
\* the interleaving, one returns a trade_id and the other raises the
\* position-not-found error; one Trade for the position is stored and the
\* position is no longer open.
C7_ExactlyOneCloseWins ==
    \A id \in OpenPositionIds(OnePositionDb) :
        (BothClose(id) /\ \A t \in Closers : Finished(t)) =>
            /\ Cardinality({t \in Closers : pc[t] = "returned"}) = 1
            /\ Cardinality({t \in Closers :
                    pc[t] = "raised" /\ local[t].raised = "ValueError"}) = 1
            /\ Cardinality({tr \in committed.trade : tr.closes = id}) = 1
            /\ Cardinality({tr \in conn.trade : tr.closes = id}) = 1
            /\ id \notin OpenPositionIds(conn)
            /\ id \notin OpenPositionIds(committed)

\* C8: while a close_open_position is in progress, a reader polling
\* get_trades and get_open_positions never gets, from one state of the store,
\* both the new Trade and the OpenPosition it closes.
C8_ReaderNeverSeesTradeAndPosition ==
    ~ ( /\ obs.same_state
        /\ \E tr \in obs.trades, p \in obs.open_positions :
              tr.closes = p.open_position_id )

\* C9: a reader polling through the store's query methods while a writer is
\* at work gets committed rows only.
C9_ReaderSeesCommittedOnly == obs.dirty = {}

\* ----------------------------------------- date-range queries: SpecQuery
\* The query methods applied to tables whose rows carry timestamps.  The
\* tables are drawn at the start; a step is one call of get_signals or
\* get_trades (get_signals_for_run, get_trades_for_run in the backtest store)
\* with bounds drawn from the timestamps and None.
Dates == 8 .. MaxDate
DateArgs == {NULL} \cup Dates

\* One row per timestamp (signals) and per entry/exit pair with
\* entry_date <= exit_date (trades), all of run 1.
SignalRows == {[signal_id |-> d, run_id |-> 1, date |-> d] : d \in Dates}
TradeRows ==
    {[trade_id |-> 100 * w[1] + w[2], run_id |-> 1, entry_date |-> w[1], exit_date |-> w[2]] :
        w \in {v \in Dates \X Dates : v[1] <= v[2]}}

Asked(op, start_date, end_date, result) ==
    [asked |-> TRUE, op |-> op, start_date |-> start_date, end_date |-> end_date,
     result |-> result]

InitQuery ==
    /\ backend \in Backends
    /\ \/ \E S \in SUBSET SignalRows :
             /\ Cardinality(S) <= MaxStored
             /\ conn = [EmptyDb EXCEPT !.signal = S]
             /\ committed = conn
       \/ \E T \in SUBSET TradeRows :
             /\ Cardinality(T) <= MaxStored
             /\ conn = [EmptyDb EXCEPT !.trade = T]
             /\ committed = conn
    /\ current_run_id = NULL
    /\ ret = NoCall
    /\ everOpened = {}
    /\ closedIds = {}
    /\ pc = [t \in Threads |-> "idle"]
    /\ cursor = IdleCursor
    /\ local = IdleLocal
    /\ obs = IdleObs
    /\ opened = TRUE
    /\ trade_object = NoTrade
    /\ query = NoQuery
    /\ scope = NoScope
    /\ market = NoMarket
    /\ frame = NoFrame

get_signals ==
    /\ \E start_date \in DateArgs, end_date \in DateArgs :
         query' = Asked("get_signals", start_date, end_date,
                        IF backend = "live"
                        THEN Live_get_signals(conn, start_date, end_date)
                        ELSE Backtest_get_signals_for_run(conn, 1, start_date, end_date))
    /\ UNCHANGED <<scope, market, frame, backend, committed, conn, current_run_id, ret, everOpened, closedIds,
                   pc, cursor, local, obs, opened, trade_object>>

get_trades ==
    /\ \E start_date \in DateArgs, end_date \in DateArgs :
         query' = Asked("get_trades", start_date, end_date,
                        IF backend = "live"
                        THEN Live_get_trades(conn, start_date, end_date)
                        ELSE Backtest_get_trades_for_run(conn, 1, start_date, end_date))
    /\ UNCHANGED <<scope, market, frame, backend, committed, conn, current_run_id, ret, everOpened, closedIds,
                   pc, cursor, local, obs, opened, trade_object>>

NextQuery ==
    \/ get_signals
    \/ get_trades

SpecQuery == InitQuery /\ [][NextQuery]_vars

\* -------------------------------------------- claims checked under SpecQuery
\* start <= t <= end on the timestamps themselves, a missing bound unbounded
Within(lo, t1, t2, hi) == (lo = NULL \/ lo <= t1) /\ (hi = NULL \/ t2 <= hi)

\* C17: get_signals with bounds start and/or end returns the signals whose
\* timestamp t has start <= t <= end, both inclusive, a missing bound
\* unbounded: all of them and no other.
C17_SignalsInInclusiveRange ==
    (query.asked /\ query.op = "get_signals") =>
        query.result = {x \in conn.signal :
                           Within(query.start_date, x.date, x.date, query.end_date)}

\* A signal on each bound is returned, one before the range is left out.
C17_Witness ==
    /\ query.asked
    /\ query.op = "get_signals"
    /\ query.start_date # NULL
    /\ query.end_date # NULL
    /\ query.start_date < query.end_date
    /\ \E x, y, z \in conn.signal :
          /\ x.date = query.start_date /\ x \in query.result
          /\ y.date = query.end_date /\ y \in query.result
          /\ z.date < query.start_date /\ z \notin query.result

\* C18: get_trades returns the trades with entry timestamp >= start and exit
\* timestamp <= end (each bound optional, inclusive), in the live and in the
\* backtest store alike: on the same trades and bounds both return the same.
C18_TradeWindowSameInBothStores ==
    (query.asked /\ query.op = "get_trades") =>
        /\ query.result = {x \in conn.trade :
                              Within(query.start_date, x.entry_date,
                                     x.exit_date, query.end_date)}
        /\ Live_get_trades(conn, query.start_date, query.end_date)
              = Backtest_get_trades_for_run(conn, 1, query.start_date, query.end_date)

\* ------------------------------------------- the Trade record: SpecTrade
\* Trade is a dataclass whose __post_init__ fills in results the caller left
\* out.  An optional float is <<>> (None) or <<x>>; amounts are integers.
None == <<>>
Some(x) == <<x>>
Val(opt) == opt[1]
Abs(x) == IF x < 0 THEN 0 - x ELSE x
\* "x is None or x == 0.0"
Missing(opt) == opt = None \/ opt = Some(0)

Amounts == (0 - MaxAmount) .. MaxAmount
Prices == 1 .. MaxAmount
Directions == {"long", "short"}

\* __post_init__ that keeps the sign of the quantity it was given
Trade_post_init_signed(t) ==
    LET quantity == t.quantity
        multiplier == IF t.direction = "long" THEN 1 ELSE 0 - 1
        gross_result == IF Missing(t.gross_result)
                        THEN Some((t.exit_price - t.entry_price) * quantity * multiplier)
                        ELSE t.gross_result
        fee == IF Missing(t.commission) THEN 0 ELSE Val(t.commission)
        net_result == IF Missing(t.net_result)
                      THEN Some(Val(gross_result) - fee)
                      ELSE t.net_result
    IN  [t EXCEPT !.quantity = quantity, !.gross_result = gross_result,
                  !.net_result = net_result]

\* __post_init__ on the fields as the caller passed them
Trade_post_init(t) ==
    LET quantity == Abs(t.quantity)
        multiplier == IF t.direction = "long" THEN 1 ELSE 0 - 1
        gross_result == IF Missing(t.gross_result)
                        THEN Some((t.exit_price - t.entry_price) * quantity * multiplier)
                        ELSE t.gross_result
        \* "self.commission if self.commission else 0.0"
        fee == IF Missing(t.commission) THEN 0 ELSE Val(t.commission)
        net_result == IF Missing(t.net_result)
                      THEN Some(Val(gross_result) - fee)
                      ELSE t.net_result
    IN  [t EXCEPT !.quantity = quantity, !.gross_result = gross_result,
                  !.net_result = net_result]

\* Trade(...): the generated __init__ stores the arguments, then __post_init__.
\* One Trade is followed from its construction on.
Trade_init ==
    /\ ~ trade_object.built
    /\ \E direction \in Directions, quantity \in Amounts,
          entry_price \in Prices, exit_price \in Prices,
          gross_result \in {None} \cup {Some(x) : x \in Amounts},
          commission \in {None} \cup {Some(x) : x \in 0 .. MaxAmount},
          net_result \in {None} \cup {Some(x) : x \in Amounts} :
         LET supplied == [direction |-> direction, quantity |-> quantity,
                          entry_price |-> entry_price, exit_price |-> exit_price,
                          gross_result |-> gross_result, commission |-> commission,
                          net_result |-> net_result]
         IN  trade_object' = [built |-> TRUE, reloaded |-> FALSE, supplied |-> supplied,
                              fields |-> Trade_post_init(supplied)]
    /\ UNCHANGED <<scope, market, frame, backend, committed, conn, current_run_id, ret, everOpened, closedIds,
                   pc, cursor, local, obs, opened, query>>

\* _insert_trade binds the object's fields as they are; get_trades /
\* get_trades_for_run build a Trade from the row, which runs __post_init__ on
\* the stored values.
Trade_reload ==
    /\ trade_object.built
    /\ trade_object' = [trade_object EXCEPT !.reloaded = TRUE,
                                            !.fields = Trade_post_init(@)]
    /\ UNCHANGED <<scope, market, frame, backend, committed, conn, current_run_id, ret, everOpened, closedIds,
                   pc, cursor, local, obs, opened, query>>

NextTrade ==
    \/ Trade_init
    \/ Trade_reload

SpecTrade == Init /\ [][NextTrade]_vars

\* -------------------------------------------- claims checked under SpecTrade
\* C19: every Trade, as constructed and as read back from the store, has
\* net_result = gross_result - commission, whatever gross_result, net_result
\* and commission the caller passed.
C19_NetIsGrossMinusCommission ==
    (trade_object.built /\ trade_object.fields.commission # None) =>
        /\ trade_object.fields.gross_result # None
        /\ trade_object.fields.net_result # None
        /\ Val(trade_object.fields.net_result)
              = Val(trade_object.fields.gross_result) - Val(trade_object.fields.commission)

\* C20: every Trade has gross_result = (exit_price - entry_price) * quantity
\* when LONG and (entry_price - exit_price) * quantity when SHORT, whatever
\* gross_result the caller passed.
C20_GrossIsPriceMoveTimesQuantity ==
    trade_object.built =>
        LET f == trade_object.fields
        IN  /\ f.gross_result # None
            /\ f.direction = "long" =>
                  Val(f.gross_result) = (f.exit_price - f.entry_price) * f.quantity
            /\ f.direction = "short" =>
                  Val(f.gross_result) = (f.entry_price - f.exit_price) * f.quantity

\* C21: the quantity of every Trade, as constructed and as read back from the
\* store, is the absolute value of the quantity the caller passed, for either
\* direction, and a gross_result the constructor derives is computed from that
\* absolute value.
C21_QuantityIsMagnitude ==
    trade_object.built =>
        LET given == trade_object.supplied
            f == trade_object.fields
            multiplier == IF given.direction = "long" THEN 1 ELSE 0 - 1
        IN  /\ f.quantity = Abs(given.quantity)
            /\ f.quantity >= 0
            /\ Missing(given.gross_result) =>
                  f.gross_result = Some((given.exit_price - given.entry_price)
                                           * Abs(given.quantity) * multiplier)

\* A Trade built with a negative quantity and no gross_result, on a price
\* move, and read back from the store.
C21_Witness ==
    /\ trade_object.built
    /\ trade_object.reloaded
    /\ trade_object.supplied.quantity < 0
    /\ trade_object.supplied.gross_result = None
    /\ trade_object.supplied.exit_price # trade_object.supplied.entry_price
    /\ trade_object.fields.quantity = 0 - trade_object.supplied.quantity

\* ------------------------------------ the quantity column: SpecPosition
\* OpenPosition(...) is a plain dataclass: the generated __init__ stores the
\* quantity it is given, and the store binds open_position.quantity into the
\* quantity REAL column, which carries no CHECK.
OpenPosition_init(quantity) == [quantity |-> quantity]

\* The row insert_open_position wrote, with its quantity column.
Bind_quantity(db, open_position_id, open_position) ==
    [db EXCEPT !.open_position =
        {IF p.open_position_id = open_position_id
         THEN [quantity |-> open_position.quantity] @@ p ELSE p : p \in @}]

insert_open_position_quantity ==
    /\ opened
    /\ Room(conn)
    /\ \E entry_signal_id \in SignalIdArgs(conn), quantity \in Amounts :
         LET open_position == OpenPosition_init(quantity)
             r == IF backend = "live" THEN Live_insert_open_position(conn, entry_signal_id)
                  ELSE Backtest_insert_open_position(conn, current_run_id, entry_signal_id)
         IN  /\ conn' = IF r.error = "none"
                        THEN Bind_quantity(r.db, r.lastrowid, open_position)
                        ELSE r.db
             /\ ret' = Call("insert_open_position", r.error, r.lastrowid, quantity)
             /\ everOpened' = IF r.error = "none" THEN everOpened \cup {r.lastrowid}
                              ELSE everOpened
    /\ UNCHANGED <<scope, market, frame, opened, trade_object, query, backend, committed,
                   current_run_id, closedIds, pc, cursor, local, obs>>

NextPosition ==
    \/ create_backtest_run
    \/ insert_signal
    \/ insert_open_position_quantity
    \/ commit

SpecPosition == Init /\ [][NextPosition]_vars

\* ----------------------------------------- claims checked under SpecPosition
\* C22: every OpenPosition row in the store, pending or committed, has
\* quantity > 0: insert_open_position never stores a zero or negative quantity.
C22_PersistedQuantityPositive ==
    \A p \in conn.open_position \cup committed.open_position : p.quantity > 0

\* ------------------------------- a store in a `with` statement: SpecScope
\* Variant of __exit__ that closes only when the block raised nothing.
Interface_exit_on_success(exc) == [closed |-> exc = "none", suppress |-> FALSE]

\* __exit__(exc_type, exc_val, exc_tb) calls self.close() and returns None: a
\* falsy return, so the `with` statement re-raises the block's exception.
Interface_exit(exc) == [closed |-> TRUE, suppress |-> FALSE]

\* `with LiveTraderDataBaseManager(...) as db:` on the store just constructed;
\* __enter__ returns self and the block starts.
with_enter ==
    /\ opened
    /\ scope.at = "outside"
    /\ scope' = [scope EXCEPT !.at = "body"]
    /\ UNCHANGED <<market, frame, backend, committed, conn, current_run_id, ret, everOpened,
                   closedIds, pc, cursor, local, obs, opened, trade_object, query>>

\* The block is running and has raised nothing: it may call the store.
InBody == scope.at = "body" /\ scope.exc = "none"

\* The block raises: an exception of its own, or the one the store's last
\* call raised, which the block did not catch.
BodyExceptions == {"RuntimeError"} \cup ({ret.raised} \ {"none"})
body_raise ==
    /\ InBody
    /\ \E exc \in BodyExceptions : scope' = [scope EXCEPT !.exc = exc]
    /\ UNCHANGED <<market, frame, backend, committed, conn, current_run_id, ret, everOpened,
                   closedIds, pc, cursor, local, obs, opened, trade_object, query>>

\* The block ends, by reaching its end or by the exception: the `with`
\* statement calls __exit__, and re-raises unless __exit__ returned True.
\* close() on the sqlite3 connection drops what was not committed.
with_exit ==
    /\ scope.at = "body"
    /\ LET r == Interface_exit(scope.exc)
       IN  /\ opened' = (opened /\ ~ r.closed)
           /\ conn' = IF r.closed THEN committed ELSE conn
           /\ scope' = [scope EXCEPT !.at = "after",
                                     !.propagated = IF r.suppress THEN "none" ELSE scope.exc]
    /\ ret' = Call("close", "none", NULL, NULL)
    /\ UNCHANGED <<market, frame, backend, committed, current_run_id, everOpened,
                   closedIds, pc, cursor, local, obs, trade_object, query>>

NextScope ==
    \/ with_enter
    \/ InBody /\ create_backtest_run
    \/ InBody /\ insert_signal
    \/ InBody /\ insert_open_position
    \/ InBody /\ close_open_position
    \/ InBody /\ commit
    \/ body_raise
    \/ with_exit

SpecScope == Init /\ [][NextScope]_vars

\* -------------------------------------------- claims checked under SpecScope
\* C23: once a `with` block over a store has ended, normally or by an
\* exception raised inside it, the connection is closed, and the exception
\* raised inside the block is the one the caller gets.
C23_WithBlockReleasesConnection ==
    scope.at = "after" =>
        /\ ~ opened
        /\ scope.propagated = scope.exc

\* A block left by the ValueError of a close_open_position, with rows pending.
C23_Witness ==
    /\ scope.at = "after"
    /\ scope.propagated = "ValueError"
    /\ ~ opened
    /\ committed.signal # {}

\* ------------------------------- the market-data store: SpecMarket
\* SQLiteDatabase keeps a calendar of trading days and the daily bars of a
\* symbol, both keyed by the day as '%Y-%m-%d' text.  Callers pass datetimes.
Hours == {0, 12}
Datetimes == [day : Dates, hour : Hours]
\* strftime('%Y-%m-%d'): fixed-width text of the day, the time of day dropped
Strftime(dt) == Adapt(dt.day)
\* date BETWEEN ? AND ?   on TEXT values
Between(column, low, high) == ~ TextLess(column, low) /\ ~ TextLess(high, column)

\* Variant of has_ohlcv_data that answers False when the range holds no
\* trading day.
SQLite_has_ohlcv_data_lenient(db, start_date, end_date) ==
    LET trading_days == {d \in db.calendar :
                            Between(d, Strftime(start_date), Strftime(end_date))}
        data_count == Cardinality({d \in db.ohlcv :
                            Between(d, Strftime(start_date), Strftime(end_date))})
    IN  [raised |-> "none", value |-> trading_days # {} /\ data_count = Cardinality(trading_days)]

SQLite_has_ohlcv_data(db, start_date, end_date) ==
    LET trading_days == {d \in db.calendar :
                            Between(d, Strftime(start_date), Strftime(end_date))}
        data_count == Cardinality({d \in db.ohlcv :
                            Between(d, Strftime(start_date), Strftime(end_date))})
    IN  IF trading_days = {}
        THEN [raised |-> "ValueError", value |-> FALSE]
        ELSE [raised |-> "none", value |-> data_count = Cardinality(trading_days)]

\* INSERT OR IGNORE INTO calendar, one Calendar item per call here.  The
\* record of the last coverage check is kept only until the tables change.
populate_stock_calendar ==
    /\ \E item \in Datetimes :
         market' = [NoMarket EXCEPT !.calendar = market.calendar \cup {Strftime(item)},
                               !.ohlcv = market.ohlcv]
    /\ UNCHANGED <<scope, frame, backend, committed, conn, current_run_id, ret, everOpened,
                   closedIds, pc, cursor, local, obs, opened, trade_object, query>>

\* INSERT OR REPLACE INTO ohlcv for the one symbol followed; the caller
\* (DataManager.update_ohlcv_data) formats the bar's timestamp.
insert_ohlcv_data ==
    /\ \E timestamp \in Datetimes :
         market' = [NoMarket EXCEPT !.calendar = market.calendar,
                               !.ohlcv = market.ohlcv \cup {Strftime(timestamp)}]
    /\ UNCHANGED <<scope, frame, backend, committed, conn, current_run_id, ret, everOpened,
                   closedIds, pc, cursor, local, obs, opened, trade_object, query>>

has_ohlcv_data ==
    /\ \E start_date \in Datetimes, end_date \in Datetimes :
         LET r == SQLite_has_ohlcv_data(market, start_date, end_date)
         IN  market' = [checked |-> TRUE, calendar |-> market.calendar,
                        ohlcv |-> market.ohlcv, start_date |-> start_date,
                        end_date |-> end_date, raised |-> r.raised, value |-> r.value]
    /\ UNCHANGED <<scope, frame, backend, committed, conn, current_run_id, ret, everOpened,
                   closedIds, pc, cursor, local, obs, opened, trade_object, query>>

NextMarket ==
    \/ populate_stock_calendar
    \/ insert_ohlcv_data
    \/ has_ohlcv_data

SpecMarket == Init /\ [][NextMarket]_vars

\* ------------------------------------------- claims checked under SpecMarket
\* The day a calendar key stands for.
DayOf(text) == text[1] * 10 + text[2]

The(S) == CHOOSE x \in S : TRUE
LimbBits == 15
Base == 2 ^ LimbBits
MantissaBits == 53

Limb(a, i) == IF i <= Len(a) THEN a[i] ELSE 0
RECURSIVE Trim(_)
Trim(a) ==
    IF a = <<>> THEN a
    ELSE IF a[Len(a)] = 0 THEN Trim(SubSeq(a, 1, Len(a) - 1)) ELSE a
RECURSIVE BigOf(_)
BigOf(n) == IF n = 0 THEN <<>> ELSE <<n % Base>> \o BigOf(n \div Base)
\* -1, 0, 1 as a < b, a = b, a > b
RECURSIVE CmpFrom(_, _, _)
CmpFrom(a, b, i) ==
    IF i = 0 THEN 0
    ELSE IF a[i] < b[i] THEN 0 - 1
    ELSE IF a[i] > b[i] THEN 1
    ELSE CmpFrom(a, b, i - 1)
BigCmp(a, b) ==
    IF Len(a) < Len(b) THEN 0 - 1
    ELSE IF Len(a) > Len(b) THEN 1
    ELSE CmpFrom(a, b, Len(a))
RECURSIVE AddFrom(_, _, _, _)
AddFrom(a, b, i, carry) ==
    IF i > Len(a) /\ i > Len(b)
    THEN IF carry = 0 THEN <<>> ELSE <<carry>>
    ELSE LET s == Limb(a, i) + Limb(b, i) + carry
         IN  <<s % Base>> \o AddFrom(a, b, i + 1, s \div Base)
BigAdd(a, b) == AddFrom(a, b, 1, 0)
\* a - b for a >= b
RECURSIVE SubFrom(_, _, _, _)
SubFrom(a, b, i, borrow) ==
    IF i > Len(a) THEN <<>>
    ELSE LET d == a[i] - Limb(b, i) - borrow
         IN  IF d < 0 THEN <<d + Base>> \o SubFrom(a, b, i + 1, 1)
             ELSE <<d>> \o SubFrom(a, b, i + 1, 0)
BigSub(a, b) == Trim(SubFrom(a, b, 1, 0))
\* a * k for a limb k
RECURSIVE MulSmallFrom(_, _, _, _)
MulSmallFrom(a, k, i, carry) ==
    IF i > Len(a) THEN IF carry = 0 THEN <<>> ELSE <<carry>>
    ELSE LET p == a[i] * k + carry
         IN  <<p % Base>> \o MulSmallFrom(a, k, i + 1, p \div Base)
MulSmall(a, k) == IF k = 0 THEN <<>> ELSE MulSmallFrom(a, k, 1, 0)
ShlLimbs(a, n) == IF a = <<>> THEN a ELSE [i \in 1 .. n |-> 0] \o a
RECURSIVE MulFrom(_, _, _)
MulFrom(a, b, j) ==
    IF j > Len(b) THEN <<>>
    ELSE BigAdd(ShlLimbs(MulSmall(a, b[j]), j - 1), MulFrom(a, b, j + 1))
BigMul(a, b) == MulFrom(a, b, 1)
\* a * 2^n  and  floor(a / 2^n)
Shl(a, n) == ShlLimbs(MulSmall(a, 2 ^ (n % LimbBits)), n \div LimbBits)
RECURSIVE DivSmallFrom(_, _, _, _)
DivSmallFrom(a, k, i, rem) ==
    IF i = 0 THEN <<>>
    ELSE LET x == rem * Base + a[i]
         IN  DivSmallFrom(a, k, i - 1, x % k) \o <<x \div k>>
DivSmall(a, k) == Trim(DivSmallFrom(a, k, Len(a), 0))
Shr(a, n) ==
    IF n \div LimbBits >= Len(a) THEN <<>>
    ELSE DivSmall(SubSeq(a, n \div LimbBits + 1, Len(a)), 2 ^ (n % LimbBits))
RECURSIVE BitLenSmall(_)
BitLenSmall(n) == IF n = 0 THEN 0 ELSE 1 + BitLenSmall(n \div 2)
BitLen(a) == IF a = <<>> THEN 0 ELSE LimbBits * (Len(a) - 1) + BitLenSmall(a[Len(a)])
IsOdd(a) == a # <<>> /\ a[1] % 2 = 1

\* A float64: nan, or sign * m * 2^e with m = 0 or m of exactly 53 bits.
NaN == [nan |-> TRUE, sign |-> 1, m |-> <<>>, e |-> 0]
FZero == [nan |-> FALSE, sign |-> 1, m |-> <<>>, e |-> 0]
\* The rounded significand r: a carry out of the 53 bits halves it.
RoundCarry(sign, r, e) ==
    IF BitLen(r) > MantissaBits
    THEN [nan |-> FALSE, sign |-> sign, m |-> Shr(r, 1), e |-> e + 1]
    ELSE [nan |-> FALSE, sign |-> sign, m |-> r, e |-> e]
\* q is m without its low k bits and c compares the dropped bits with half a
\* unit of q: round up above half, and at half when q is odd.
RoundUp(sign, q, e, c) ==
    The({RoundCarry(sign, r, e) :
            r \in {IF c = 1 \/ (c = 0 /\ IsOdd(q)) THEN BigAdd(q, <<1>>) ELSE q}})
RoundDropped(sign, m, e, k, q) ==
    The({RoundUp(sign, q, e + k, c) :
            c \in {BigCmp(BigSub(m, Shl(q, k)), Shl(<<1>>, k - 1))}})
RoundBits(sign, m, e, bl) ==
    IF bl <= MantissaBits
    THEN [nan |-> FALSE, sign |-> sign, m |-> Shl(m, MantissaBits - bl),
          e |-> e - (MantissaBits - bl)]
    ELSE The({RoundDropped(sign, m, e, bl - MantissaBits, q) :
                 q \in {Shr(m, bl - MantissaBits)}})
\* sign * m * 2^e for any natural m, rounded to nearest, ties to even
Round(sign, m, e) ==
    IF m = <<>> THEN FZero ELSE The({RoundBits(sign, m, e, bl) : bl \in {BitLen(m)}})
\* float(n) for an int n
Float(n) == Round(IF n < 0 THEN 0 - 1 ELSE 1, BigOf(IF n < 0 THEN 0 - n ELSE n), 0)
IsZero(x) == ~ x.nan /\ x.m = <<>>
FNeg(x) == IF x.nan \/ IsZero(x) THEN x ELSE [x EXCEPT !.sign = 0 - @]
FAbs(x) == IF x.nan THEN x ELSE [x EXCEPT !.sign = 1]
\* -1, 0, 1 on the magnitudes of two numbers
MagCmp(x, y) ==
    IF IsZero(x) THEN (IF IsZero(y) THEN 0 ELSE 0 - 1)
    ELSE IF IsZero(y) THEN 1
    ELSE IF x.e < y.e THEN 0 - 1
    ELSE IF x.e > y.e THEN 1
    ELSE BigCmp(x.m, y.m)
\* x < y; False when either is nan, as IEEE comparisons are
FLess(x, y) ==
    /\ ~ x.nan
    /\ ~ y.nan
    /\ IF x.sign # y.sign THEN x.sign < y.sign /\ ~ (IsZero(x) /\ IsZero(y))
       ELSE IF x.sign = 1 THEN MagCmp(x, y) < 0 ELSE MagCmp(x, y) > 0
FLessEq(x, y) == ~ x.nan /\ ~ y.nan /\ ~ FLess(y, x)
\* The exponents differ by more than this: the smaller operand is below a
\* quarter of the larger one's last place and the sum rounds to the larger.
Absorbed == 64
\* x.sign * big + y.sign * y.m for opposite signs, c comparing big with y.m
FAddOpposite(x, y, big, c) ==
    IF c = 0 THEN FZero
    ELSE Round(IF c > 0 THEN x.sign ELSE y.sign,
               IF c > 0 THEN BigSub(big, y.m) ELSE BigSub(y.m, big), y.e)
\* big is x.m brought to the exponent of y
FAddShifted(x, y, big) ==
    IF x.sign = y.sign THEN Round(x.sign, BigAdd(big, y.m), y.e)
    ELSE The({FAddOpposite(x, y, big, c) : c \in {BigCmp(big, y.m)}})
\* x.e >= y.e, both non-zero numbers
FAddAligned(x, y) ==
    IF x.e - y.e > Absorbed THEN x
    ELSE The({FAddShifted(x, y, big) : big \in {Shl(x.m, x.e - y.e)}})
FAdd(x, y) ==
    IF x.nan \/ y.nan THEN NaN
    ELSE IF IsZero(x) THEN y
    ELSE IF IsZero(y) THEN x
    ELSE FAddAligned(IF x.e >= y.e THEN x ELSE y, IF x.e >= y.e THEN y ELSE x)
FSub(x, y) == FAdd(x, FNeg(y))
FMul(x, y) ==
    IF x.nan \/ y.nan THEN NaN
    ELSE IF IsZero(x) \/ IsZero(y) THEN FZero
    ELSE The({Round(x.sign * y.sign, m, x.e + y.e) : m \in {BigMul(x.m, y.m)}})
\* One quotient limb of long division: the largest digit with d * digit <= rem,
\* for rem < d * Base and d with its top limb at least Base / 2.  The estimate
\* from the leading limbs is at most 2 too large.
QuotientEstimate(rem, d) ==
    LET n == Len(d)
        top == Limb(rem, n + 1) * Base + Limb(rem, n)
    IN  IF top \div d[n] >= Base THEN Base - 1 ELSE top \div d[n]
QuotientCorrected(rem, d, estimate) ==
    IF BigCmp(MulSmall(d, estimate), rem) <= 0 THEN estimate
    ELSE IF BigCmp(MulSmall(d, estimate - 1), rem) <= 0 THEN estimate - 1
    ELSE estimate - 2
QuotientDigit(rem, d) ==
    The({QuotientCorrected(rem, d, estimate) : estimate \in {QuotientEstimate(rem, d)}})
\* One more limb of the quotient q, from the remainder rem * Base.
DivDigit(q, rem, d, digit) == <<Trim(<<digit>> \o q), BigSub(rem, MulSmall(d, digit))>>
DivShifted(q, rem, d) ==
    The({DivDigit(q, rem, d, digit) : digit \in {QuotientDigit(rem, d)}})
DivStep(before, d) ==
    The({DivShifted(before[1], rem, d) : rem \in {ShlLimbs(before[2], 1)}})
\* <<quotient, remainder>> of (rem * Base^n) / d after n limbs, from
\* start = <<q, rem>> with rem < d.
RECURSIVE DivLimbs(_, _, _)
DivLimbs(start, d, n) ==
    IF n = 0 THEN start
    ELSE The({DivStep(before, d) : before \in {DivLimbs(start, d, n - 1)}})
\* Quotient limbs computed beyond the significand, and the shift that brings
\* a 53-bit divisor's top limb to at least Base / 2.
QuotientLimbs == 4
Normalise == 4 * LimbBits - MantissaBits
\* qr is <<quotient, remainder>>; one more bit is set when the division left
\* a remainder.
FDivRounded(x, y, qr) ==
    Round(x.sign * y.sign,
          BigAdd(MulSmall(qr[1], 2), IF qr[2] = <<>> THEN <<>> ELSE <<1>>),
          x.e - y.e - QuotientLimbs * LimbBits - 1)
FDivNormalised(x, y, num, d) ==
    The({FDivRounded(x, y, qr) :
            qr \in {DivLimbs(IF BigCmp(num, d) >= 0 THEN <<<<1>>, BigSub(num, d)>>
                             ELSE <<<<>>, num>>,
                             d, QuotientLimbs)}})
FDiv(x, y) ==
    IF x.nan \/ y.nan THEN NaN
    \* x / 0 is inf or nan in numpy; the divisors of the indicators are sums
    \* with a positive term, so no number is ever divided by zero here
    ELSE IF IsZero(y) THEN NaN
    ELSE IF IsZero(x) THEN FZero
    ELSE The({FDivNormalised(x, y, num, d) :
                 num \in {Shl(x.m, Normalise)}, d \in {Shl(y.m, Normalise)}})

\* ------------------------------------------------------- pandas / numpy
\* A DataFrame is a function from its column names to columns; a column is a
\* sequence of float64, bar 0 of the source at index 1.
Rows(df) == IF DOMAIN df = {} THEN 0 ELSE Len(df[CHOOSE c \in DOMAIN df : TRUE])
\* df[name] = column
SetColumn(df, name, column) == (name :> column) @@ df
\* The values of a column, held as an array.
Array(column) == column \o <<>>
One == Float(1)
Hundred == Float(100)
\* np.roll(x, 1)
Roll(x) == IF x = <<>> THEN x ELSE <<x[Len(x)]>> \o SubSeq(x, 1, Len(x) - 1)
\* np.maximum: nan when either is nan
FMax(x, y) == IF x.nan \/ y.nan THEN NaN ELSE IF FLess(x, y) THEN y ELSE x
\* max / min of a window as rolling(window).max() / .min() give it
RECURSIVE WindowMax(_, _, _)
WindowMax(x, from, to) ==
    IF from = to THEN x[to]
    ELSE LET rest == WindowMax(x, from, to - 1)
         IN  IF FLess(rest, x[to]) THEN x[to] ELSE rest
RECURSIVE WindowMin(_, _, _)
WindowMin(x, from, to) ==
    IF from = to THEN x[to]
    ELSE LET rest == WindowMin(x, from, to - 1)
         IN  IF FLess(x[to], rest) THEN x[to] ELSE rest
\* Series.rolling(window).max(): min_periods is the window, so the first
\* window - 1 values are nan
RollingMax(x, window) ==
    [i \in 1 .. Len(x) |-> IF i < window THEN NaN ELSE WindowMax(x, i - window + 1, i)]
RollingMin(x, window) ==
    [i \in 1 .. Len(x) |-> IF i < window THEN NaN ELSE WindowMin(x, i - window + 1, i)]

\* One step of the running mean: mean and weight so far, then the next value;
\* old_wt is the weight so far times 1 - alpha.
EwmWeighted(before, cur, alpha, old_wt) ==
    IF before.weighted.nan THEN [before EXCEPT !.weighted = cur]
    ELSE IF cur.nan THEN [before EXCEPT !.old_wt = old_wt]
    ELSE IF before.weighted = cur THEN [before EXCEPT !.old_wt = One]
    ELSE [weighted |-> FDiv(FAdd(FMul(old_wt, before.weighted), FMul(alpha, cur)),
                            FAdd(old_wt, alpha)),
          old_wt |-> One]
EwmStep(before, cur, alpha) ==
    The({EwmWeighted(before, cur, alpha, old_wt) :
            old_wt \in {FMul(before.old_wt, FSub(One, alpha))}})
\* The states of the running mean after each of the first n values.
RECURSIVE EwmStates(_, _, _)
EwmStates(x, alpha, n) ==
    IF n = 0 THEN <<>>
    ELSE IF n = 1 THEN <<[weighted |-> x[1], old_wt |-> One]>>
    ELSE LET before == EwmStates(x, alpha, n - 1)
         IN  Append(before, EwmStep(before[n - 1], x[n], alpha))
\* Series.ewm(alpha=alpha, adjust=False).mean(), as pandas computes it: alpha
\* goes through the centre of mass; the running mean starts at the first
\* value that is not nan and is left alone by a value equal to it.
EwmFrom(x, states) == Array([i \in 1 .. Len(x) |-> states[i].weighted])
Ewm(x, alpha) ==
    The({EwmFrom(x, EwmStates(x, a, Len(x))) :
            a \in {FDiv(One, FAdd(One, FDiv(FSub(One, alpha), alpha)))}})

\* --------------------------------------------------- utils/indicators.py
\* rolling(window=3)
Window == 3
\* "The first 2*period-2 rows will contain NaNs due to initialization."
WarmUp(period) == 2 * period - 2
Needed == {"high", "low", "close"}
Raise(error, df) == [raised |-> error, value |-> <<>>, df |-> df]
Return(value, df) == [raised |-> "none", value |-> value, df |-> df]
\* epsilon = 1e-10: the float64 nearest to 1 / 10^10
Epsilon == FDiv(One, FMul(Float(100000), Float(100000)))

\* Variant of calculate_donchian with the two bands taken from the other
\* column: the upper band from the lows, the lower band from the highs.
Indicators_calculate_donchian_swapped(df, period) ==
    IF "high" \notin DOMAIN df \/ "low" \notin DOMAIN df THEN Raise("KeyError", df)
    ELSE LET out == SetColumn(SetColumn(df, "donchian_high", RollingMin(df.low, Window)),
                              "donchian_low", RollingMax(df.high, Window))
         IN  Return(out, out)

\* calculate_donchian writes its two columns into the frame it was given,
\* one statement at a time, and returns that frame; period is not used.
Indicators_calculate_donchian(df, period) ==
    IF "high" \notin DOMAIN df THEN Raise("KeyError", df)
    ELSE LET first == SetColumn(df, "donchian_high", RollingMax(df.high, Window))
         IN  IF "low" \notin DOMAIN df THEN Raise("KeyError", first)
             ELSE LET second == SetColumn(first, "donchian_low",
                                          RollingMin(df.low, Window))
                  IN  Return(second, second)

\* The statements of calculate_adx, each adding columns to those computed so
\* far (c); high_diff and low_diff are local arrays, not columns.
Adx_true_range(df) ==
    LET n == Rows(df)
        prev_close == [i \in 1 .. n |-> IF i = 1 THEN NaN ELSE Roll(df.close)[i]]
    IN  [tr |-> Array([i \in 1 .. n |->
                         FMax(FMax(FSub(df.high[i], df.low[i]),
                                   FAbs(FSub(df.high[i], prev_close[i]))),
                              FAbs(FSub(df.low[i], prev_close[i])))])]
High_diff(df) == Array([i \in 1 .. Rows(df) |-> FSub(df.high[i], Roll(df.high)[i])])
Low_diff(df) == Array([i \in 1 .. Rows(df) |-> FSub(Roll(df.low)[i], df.low[i])])
\* Variant of the two np.where statements in which each movement is tested
\* against zero only, not against the other one.
Adx_directional_movement_independent(c, high_diff, low_diff) ==
    c @@ [plus_dm |-> Array([i \in DOMAIN high_diff |->
                               IF FLess(FZero, high_diff[i])
                               THEN high_diff[i] ELSE FZero]),
          minus_dm |-> Array([i \in DOMAIN high_diff |->
                                IF FLess(FZero, low_diff[i])
                                THEN low_diff[i] ELSE FZero])]
Adx_directional_movement(c, high_diff, low_diff) ==
    c @@ [plus_dm |-> Array([i \in DOMAIN high_diff |->
                               IF /\ FLess(low_diff[i], high_diff[i])
                                  /\ FLess(FZero, high_diff[i])
                               THEN high_diff[i] ELSE FZero]),
          minus_dm |-> Array([i \in DOMAIN high_diff |->
                                IF /\ FLess(high_diff[i], low_diff[i])
                                   /\ FLess(FZero, low_diff[i])
                                THEN low_diff[i] ELSE FZero])]
Adx_smoothing(c, alpha) ==
    c @@ [tr_smooth |-> Ewm(c.tr, alpha), plus_dm_smooth |-> Ewm(c.plus_dm, alpha),
          minus_dm_smooth |-> Ewm(c.minus_dm, alpha)]
Adx_di(c) ==
    c @@ [plus_di |-> Array([i \in DOMAIN c.tr |->
                               FDiv(FMul(Hundred, c.plus_dm_smooth[i]),
                                    FAdd(c.tr_smooth[i], Epsilon))]),
          minus_di |-> Array([i \in DOMAIN c.tr |->
                                FDiv(FMul(Hundred, c.minus_dm_smooth[i]),
                                     FAdd(c.tr_smooth[i], Epsilon))])]
Adx_dx(c) ==
    c @@ [dx |-> Array([i \in DOMAIN c.tr |->
                          FDiv(FMul(Hundred, FAbs(FSub(c.plus_di[i], c.minus_di[i]))),
                               FAdd(FAdd(c.plus_di[i], c.minus_di[i]), Epsilon))])]
Adx_adx(c, alpha) == c @@ [adx |-> Ewm(c.dx, alpha)]
Adx_with_alpha(df, alpha) ==
    Adx_adx(Adx_dx(Adx_di(Adx_smoothing(
        Adx_directional_movement(Adx_true_range(df), High_diff(df), Low_diff(df)),
        alpha))), alpha)
\* The columns calculate_adx computes on its copy of the frame.
Adx_columns(df, period) ==
    The({Adx_with_alpha(df, alpha) : alpha \in {FDiv(One, Float(period))}})

\* What calculate_adx returns, from the columns it computed.
Adx_result(df, computed, return_all) ==
    IF return_all THEN computed @@ df
    ELSE [c \in {"plus_di", "minus_di", "adx"} |-> computed[c]] @@ df
\* calculate_adx works on a copy; "prev_close[0] = np.nan" needs a first row.
Indicators_calculate_adx(df, period, return_all) ==
    IF ~ (Needed \subseteq DOMAIN df) THEN Raise("ValueError", df)
    ELSE IF Rows(df) = 0 THEN Raise("IndexError", df)
    ELSE Return(Adx_result(df, Adx_columns(df, period), return_all), df)

\* calculate_atr reads the three columns; np.maximum.reduce of a list of Series
\* gives a plain ndarray, which has no ewm, so line 118 raises AttributeError.
Indicators_calculate_atr(df, period) ==
    IF ~ (Needed \subseteq DOMAIN df) THEN Raise("ValueError", df)
    ELSE Raise("AttributeError", df)

\* ------------------------------------------------- indicator calls: inputs
\* Prices are whole ticks of 0.1, as float64: 0.3 and 0.4.
Ticks == {3, 4}
PriceOf == [t \in Ticks |-> FDiv(Float(t), Float(10))]
\* A bar has low <= close <= high.
Bars == {b \in [high : Ticks, low : Ticks, close : Ticks] :
            b.low <= b.close /\ b.close <= b.high}
RECURSIVE SeriesOf(_)
SeriesOf(n) ==
    IF n = 0 THEN {<<>>}
    ELSE LET before == SeriesOf(n - 1)
         IN  before \cup {Append(s, b) : s \in {x \in before : Len(x) = n - 1}, b \in Bars}
\* pd.DataFrame with the given columns of a series of bars
DataFrame(series, columns) ==
    [c \in columns |-> [i \in 1 .. Len(series) |-> PriceOf[series[i][c]]]]
Frames == {DataFrame(s, columns) : s \in SeriesOf(MaxBars), columns \in SUBSET Needed}
Periods == 1 .. MaxPeriod
\* What one call leaves behind: its arguments as they were, what it raised or
\* returned, and the caller's frame afterwards.
Called(fn, df, period, return_all, r) ==
    r @@ [called |-> TRUE, fn |-> fn, given |-> df, period |-> period,
          return_all |-> return_all]

calculate_donchian ==
    /\ ~ frame.called
    /\ \E df \in Frames, period \in Periods :
         frame' = Called("calculate_donchian", df, period, FALSE,
                         Indicators_calculate_donchian(df, period))
    /\ UNCHANGED <<scope, market, backend, committed, conn, current_run_id, ret,
                   everOpened, closedIds, pc, cursor, local, obs, opened, trade_object,
                   query>>

calculate_adx ==
    /\ ~ frame.called
    /\ \E df \in Frames, period \in Periods, return_all \in BOOLEAN :
         frame' = Called("calculate_adx", df, period, return_all,
                         Indicators_calculate_adx(df, period, return_all))
    /\ UNCHANGED <<scope, market, backend, committed, conn, current_run_id, ret,
                   everOpened, closedIds, pc, cursor, local, obs, opened, trade_object,
                   query>>

calculate_atr ==
    /\ ~ frame.called
    /\ \E df \in Frames, period \in Periods :
         frame' = Called("calculate_atr", df, period, FALSE,
                         Indicators_calculate_atr(df, period))
    /\ UNCHANGED <<scope, market, backend, committed, conn, current_run_id, ret,
                   everOpened, closedIds, pc, cursor, local, obs, opened, trade_object,
                   query>>

NextDonchian == calculate_donchian

SpecDonchian == Init /\ [][NextDonchian]_vars

NextIndicator ==
    \/ calculate_donchian
    \/ calculate_adx
    \/ calculate_atr

SpecIndicator == Init /\ [][NextIndicator]_vars

\* The columns each function reads.
NeededBy(fn) == IF fn = "calculate_donchian" THEN {"high", "low"} ELSE Needed

\* C24: calculate_donchian uses the caller's period k as its trailing window:
\* at every bar t >= k-1 the upper band is the maximum of high over bars
\* t-k+1..t and the lower band the minimum of low over the same bars, for
\* every period k >= 1.
C24_DonchianUsesPeriod ==
    (frame.called /\ frame.fn = "calculate_donchian" /\ frame.raised = "none") =>
        \A i \in 1 .. Rows(frame.given) :
            i >= frame.period =>
                /\ frame.value.donchian_high[i]
                     = WindowMax(frame.given.high, i - frame.period + 1, i)
                /\ frame.value.donchian_low[i]
                     = WindowMin(frame.given.low, i - frame.period + 1, i)

\* C25: at every bar where both Donchian bands are defined the upper band is
\* not below the lower band, when every bar of the input has high >= low.
C25_BandsOrdered ==
    (/\ frame.called /\ frame.fn = "calculate_donchian" /\ frame.raised = "none"
     /\ \A i \in 1 .. Rows(frame.given) :
            FLessEq(frame.given.low[i], frame.given.high[i])) =>
        \A i \in 1 .. Rows(frame.given) :
            (~ frame.value.donchian_high[i].nan /\ ~ frame.value.donchian_low[i].nan) =>
                FLessEq(frame.value.donchian_low[i], frame.value.donchian_high[i])

\* A call on three or more bars whose third bar has both bands, the upper one
\* strictly above the lower one.
C25_Witness ==
    /\ frame.called /\ frame.fn = "calculate_donchian" /\ frame.raised = "none"
    /\ Rows(frame.given) >= Window
    /\ ~ frame.value.donchian_high[Window].nan
    /\ FLess(frame.value.donchian_low[Window], frame.value.donchian_high[Window])
    /\ \E i \in 1 .. Window : FLess(frame.given.low[i], frame.given.high[i])

\* C26: at every bar past the warm-up, 0 <= adx <= 100, for every input whose
\* bars have high >= low and every period >= 1.
C26_AdxInRange ==
    (frame.called /\ frame.fn = "calculate_adx" /\ frame.raised = "none") =>
        \A i \in 1 .. Rows(frame.given) :
            (i > WarmUp(frame.period) /\ ~ frame.value.adx[i].nan) =>
                /\ FLessEq(FZero, frame.value.adx[i])
                /\ FLessEq(frame.value.adx[i], Hundred)

\* C27: each of the three functions, given a frame that lacks a column it
\* reads, fails with the module's missing-column error (the ValueError of
\* calculate_adx and calculate_atr).
C27_MissingColumnError ==
    (frame.called /\ ~ (NeededBy(frame.fn) \subseteq DOMAIN frame.given)) =>
        frame.raised = "ValueError"

\* C28: none of the three functions changes the frame it is given, whether it
\* returns or fails on a missing column.
C28_InputUntouched ==
    frame.called => frame.df = frame.given

\* ------------------------------------------------ referential integrity
\* A stored reference is dangling when it is not NULL and names no row of the
\* parent table.  The live schema has no run table and no run_id column.
References(db, live) ==
    /\ \A s \in db.signal : live \/ s.run_id \in RunIds(db)
    /\ \A p \in db.open_position :
          /\ live \/ p.run_id \in RunIds(db)
          /\ ForeignKeyOk(p.entry_signal_id, SignalIds(db))
    /\ \A t \in db.trade :
          /\ live \/ t.run_id \in RunIds(db)
          /\ ForeignKeyOk(t.entry_signal_id, SignalIds(db))
          /\ ForeignKeyOk(t.exit_signal_id, SignalIds(db))

\* C31: in every reachable state, in the connection's view and in the
\* database file alike, every signal id stored on an open position or a trade
\* is the id of a stored signal, and every run_id stored on a signal, an open
\* position or a trade of the backtest store is the id of a stored run.
C31_NoDanglingReference ==
    /\ References(conn, backend = "live")
    /\ References(committed, backend = "live")

\* a committed trade of the backtest store that names a run and two signals
C31_Witness ==
    /\ backend = "backtest"
    /\ \E t \in committed.trade :
          /\ t.run_id # NULL
          /\ t.entry_signal_id # NULL
          /\ t.exit_signal_id # NULL

\* ------------------------------------------- a Signal stored and read back
\* SpecSignal: the live store, one insert_signal of a Signal with all its
\* fields, then one get_signals without bounds.  The Signal given is kept in
\* ret.arg, the list read back in query.result.

\* Python numbers: an int or a float (twice its value, so that halves are
\* exact), float('nan'), and None.
PyInt(n) == [type |-> "int", nan |-> FALSE, twice |-> 2 * n]
PyFloat(halves) == [type |-> "float", nan |-> FALSE, twice |-> halves]
PyNaN == [type |-> "float", nan |-> TRUE, twice |-> 0]
PyNone == [type |-> "NoneType", nan |-> FALSE, twice |-> 0]
\* Python's ==: an int equals the float of the same value, nan equals nothing.
PyEq(a, b) ==
    IF a.type = "NoneType" \/ b.type = "NoneType" THEN a.type = b.type
    ELSE ~ a.nan /\ ~ b.nan /\ a.twice = b.twice

\* A value bound to a column declared REAL and selected again: sqlite3 binds
\* an int as INTEGER, which the column's affinity turns into the REAL of the
\* same value, and a float as REAL, except nan, which SQLite stores as NULL;
\* a REAL comes back as a float, a NULL as None.
Real_column(x) == IF x.type = "NoneType" \/ x.nan THEN PyNone ELSE PyFloat(x.twice)

\* Direction and SignalType: member name |-> value (the tag that is stored);
\* Direction(tag) / SignalType(tag) look the member up by its value.
Direction_value == [LONG |-> "long", SHORT |-> "short"]
SignalType_value ==
    [NONE |-> "none", ENTRY |-> "entry", EXIT |-> "exit", REVERSE |-> "reverse",
     ERROR |-> "error"]
Enum(values, tag) == CHOOSE member \in DOMAIN values : values[member] = tag

\* pd.Timestamp: a day of Dates, microseconds and nanoseconds within it.
\* to_pydatetime() gives a datetime, which has no nanoseconds; sqlite3's
\* adapter writes it as ISO text, the fraction only when it is not zero;
\* pd.Timestamp(text) parses that text.
Timestamp_to_pydatetime(ts) == [day |-> ts.day, microsecond |-> ts.microsecond]
Adapt_datetime(dt) ==
    Adapt(dt.day) \o (IF dt.microsecond = 0 THEN <<>> ELSE <<dt.microsecond>>)
Timestamp_of_text(text) ==
    [day |-> DayOf(text), microsecond |-> IF Len(text) > 2 THEN text[3] ELSE 0,
     nanosecond |-> 0]

\* insert_signal: the INSERT with its seven bound values; the id is written
\* to the Signal and returned.
Live_insert_signal_row(db, signal) ==
    LET id == NextRowId(db, "signal")
        row == [signal_id |-> id, run_id |-> NULL,
                stock |-> signal.stock,
                direction |-> Direction_value[signal.direction],
                date |-> Adapt_datetime(Timestamp_to_pydatetime(signal.date)),
                signal_type |-> SignalType_value[signal.signal_type],
                price |-> Real_column(signal.price),
                confidence |-> Real_column(signal.confidence),
                reason |-> signal.reason]
    IN  Ok([db EXCEPT !.signal = @ \cup {row},
                      !.sqlite_sequence["signal"] = id], id)

\* get_signals(): SELECT * FROM signal, one Signal built from each row.
Live_get_signals_objects(db) ==
    {[stock |-> row.stock,
      direction |-> Enum(Direction_value, row.direction),
      date |-> Timestamp_of_text(row.date),
      signal_type |-> Enum(SignalType_value, row.signal_type),
      price |-> row.price,
      confidence |-> row.confidence,
      reason |-> row.reason,
      signal_id |-> row.signal_id] : row \in db.signal}

\* The Signals a caller may build: confidence defaults to -1 and reason to "".
Signals ==
    [stock : {"AAPL", "MSFT"},
     signal_type : DOMAIN SignalType_value,
     direction : DOMAIN Direction_value,
     date : [day : Dates, microsecond : {0, 5}, nanosecond : {0, 1}],
     price : {PyFloat(3), PyInt(1), PyNaN},
     confidence : {PyInt(0 - 1), PyFloat(1), PyNaN},
     reason : {"", "breakout"}]

\* A Signal built with the defaults and stored before.
EarlierSignal ==
    [stock |-> "MSFT", signal_type |-> "EXIT", direction |-> "SHORT",
     date |-> [day |-> MaxDate, microsecond |-> 0, nanosecond |-> 0],
     price |-> PyInt(1), confidence |-> PyInt(0 - 1), reason |-> ""]

\* The live store, empty or holding one signal stored and committed earlier.
InitSignal ==
    /\ backend = "live"
    /\ conn \in {EmptyDb, Live_insert_signal_row(EmptyDb, EarlierSignal).db}
    /\ committed = conn
    /\ current_run_id = NULL
    /\ ret = NoCall
    /\ everOpened = {}
    /\ closedIds = {}
    /\ pc = [t \in Threads |-> "idle"]
    /\ cursor = IdleCursor
    /\ local = IdleLocal
    /\ obs = IdleObs
    /\ opened = TRUE
    /\ trade_object = NoTrade
    /\ query = NoQuery
    /\ scope = NoScope
    /\ market = NoMarket
    /\ frame = NoFrame

insert_signal_row ==
    /\ opened
    /\ ret.op = "init"
    /\ \E signal \in Signals :
         LET r == Live_insert_signal_row(conn, signal)
         IN  /\ conn' = r.db
             /\ ret' = Call("insert_signal", r.error, r.lastrowid, signal)
    /\ UNCHANGED <<scope, market, frame, backend, committed, current_run_id, everOpened,
                   closedIds, pc, cursor, local, obs, opened, trade_object, query>>

get_signals_objects ==
    /\ opened
    /\ ret.op = "insert_signal"
    /\ query = NoQuery
    /\ query' = Asked("get_signals", NULL, NULL, Live_get_signals_objects(conn))
    /\ UNCHANGED <<scope, market, frame, backend, committed, conn, current_run_id, ret,
                   everOpened, closedIds, pc, cursor, local, obs, opened, trade_object>>

NextSignal ==
    \/ insert_signal_row
    \/ get_signals_objects

SpecSignal == InitSignal /\ [][NextSignal]_vars

\* The same number: Python's ==, and nan the same as nan.
SameNumber(a, b) == (a.nan /\ b.nan) \/ PyEq(a, b)

\* C32: after insert_signal(signal) and get_signals(), the list read back
\* holds exactly one Signal with the id that insert_signal returned, and its
\* symbol, kind, direction, timestamp, price, confidence and reason are those
\* of the Signal that was given.
C32_SignalRoundTrip ==
    query.asked =>
        /\ Cardinality({s \in query.result : s.signal_id = ret.value}) = 1
        /\ \A s \in query.result :
              s.signal_id = ret.value =>
                  /\ s.stock = ret.arg.stock
                  /\ s.signal_type = ret.arg.signal_type
                  /\ s.direction = ret.arg.direction
                  /\ s.date = ret.arg.date
                  /\ SameNumber(s.price, ret.arg.price)
                  /\ SameNumber(s.confidence, ret.arg.confidence)
                  /\ s.reason = ret.arg.reason

\* ------------------------------------ directional movement: SpecMovement
\* The directional-movement statements of calculate_adx (high_diff, low_diff,
\* plus_dm, minus_dm) applied to the highs and lows of a series of bars with
\* whole-number prices, so that the two movements of a bar can be equal.
Levels == {3, 4, 5}
HighLow == {b \in [high : Levels, low : Levels] : b.low <= b.high}
RECURSIVE SeriesOver(_, _)
SeriesOver(bars, n) ==
    IF n = 0 THEN {<<>>}
    ELSE LET before == SeriesOver(bars, n - 1)
         IN  before \cup {Append(s, b) : s \in {x \in before : Len(x) = n - 1}, b \in bars}
HighLowFrame(series) ==
    [high |-> Array([i \in 1 .. Len(series) |-> Float(series[i].high)]),
     low |-> Array([i \in 1 .. Len(series) |-> Float(series[i].low)])]

directional_movement ==
    /\ ~ frame.called
    /\ \E series \in SeriesOver(HighLow, MaxBars) :
         frame' = Called("directional_movement", HighLowFrame(series), 1, TRUE,
                         Return(Adx_directional_movement(HighLowFrame(series),
                                                         High_diff(HighLowFrame(series)),
                                                         Low_diff(HighLowFrame(series))),
                                HighLowFrame(series)))
    /\ UNCHANGED <<scope, market, backend, committed, conn, current_run_id, ret,
                   everOpened, closedIds, pc, cursor, local, obs, opened, trade_object,
                   query>>

NextMovement == directional_movement

SpecMovement == Init /\ [][NextMovement]_vars

\* high[t] - high[t-1] and low[t-1] - low[t], for a bar t that has a bar
\* before it (rows are numbered from 1 here, so t >= 1 is row i >= 2)
UpMove(df, i) == FSub(df.high[i], df.high[i - 1])
DownMove(df, i) == FSub(df.low[i - 1], df.low[i])

\* C33: at every bar that has a bar before it, plus_dm is the rise of the high
\* when that rise is positive and larger than the fall of the low, and 0
\* otherwise; minus_dm is the fall of the low when that fall is positive and
\* larger than the rise of the high, and 0 otherwise.  At every bar both are
\* at least 0 and at most one of them is not 0.
C33_DirectionalMovement ==
    (frame.called /\ frame.fn = "directional_movement") =>
        /\ \A i \in 2 .. Rows(frame.given) :
              /\ frame.value.plus_dm[i] =
                    IF /\ FLess(DownMove(frame.given, i), UpMove(frame.given, i))
                       /\ FLess(FZero, UpMove(frame.given, i))
                    THEN UpMove(frame.given, i) ELSE FZero
              /\ frame.value.minus_dm[i] =
                    IF /\ FLess(UpMove(frame.given, i), DownMove(frame.given, i))
                       /\ FLess(FZero, DownMove(frame.given, i))
                    THEN DownMove(frame.given, i) ELSE FZero
        /\ \A i \in 1 .. Rows(frame.given) :
              /\ FLessEq(FZero, frame.value.plus_dm[i])
              /\ FLessEq(FZero, frame.value.minus_dm[i])
              /\ IsZero(frame.value.plus_dm[i]) \/ IsZero(frame.value.minus_dm[i])

\* three bars: at the second the high rises and the low does not fall, at
\* the third high and low move apart by the same amount
C33_Witness ==
    /\ frame.called /\ frame.fn = "directional_movement"
    /\ Rows(frame.given) = 3
    /\ FLess(FZero, UpMove(frame.given, 2))
    /\ frame.value.plus_dm[2] = UpMove(frame.given, 2)
    /\ FLess(FZero, UpMove(frame.given, 3))
    /\ UpMove(frame.given, 3) = DownMove(frame.given, 3)
    /\ IsZero(frame.value.plus_dm[3]) /\ IsZero(frame.value.minus_dm[3])

\* ------------------------------------------ more claims checked under Spec
\* C34: the Trade a successful close_open_position records agrees with the
\* position the call removed.  Of the attributes the two have in common the
\* rows of this model carry entry_signal_id: the new trade row names the
\* entry signal of the open position row that the call deleted.
C34_TradeAgreesWithPosition ==
    [][(CloseStep /\ ret'.raised = "none") =>
          \A p \in conn.open_position \ conn'.open_position :
              \A t \in conn'.trade \ conn.trade :
                  t.entry_signal_id = p.entry_signal_id]_vars

\* C35: a trade is owned by the run of the open position its close removed,
\* and an open position by the run of its entry signal, whatever runs were
\* created in between.
C35_OwnershipFollowsReferences ==
    [][/\ \A p \in conn'.open_position :
             \A sig \in conn'.signal :
                 sig.signal_id = p.entry_signal_id => sig.run_id = p.run_id
       /\ (CloseStep /\ ret'.raised = "none") =>
             \A p \in conn.open_position \ conn'.open_position :
                 \A t \in conn'.trade \ conn.trade : t.run_id = p.run_id]_vars

\* C36: an id returned by insert_open_position was never returned by it
\* before on that store (everOpened holds the ids it has returned), whatever
\* closes failed and whatever rows were deleted in between.  insert_signal
\* takes its ids from the same kind of counter.
C36_IdsNeverReused ==
    [][(ret'.op = "insert_open_position" /\ ret'.raised = "none") =>
          ret'.value \notin everOpened]_vars

\* C37: a close_open_position that returns, a create_backtest_run and a
\* close_backtest_run each commit the whole pending transaction: after the
\* step the file holds everything the connection sees, so every signal and
\* every open position that was pending is in the file (but the position the
\* close removed).  What is in the file stays there: no later step, rollback
\* and uncommitted close of the store included, takes a signal out of the
\* file, and an open position leaves it only through a close that returns.
Committing ==
    /\ ret'.raised = "none"
    /\ ret'.op \in {"close_open_position", "create_backtest_run", "close_backtest_run"}
C37_CloseCommitsPending ==
    [][/\ Committing =>
             /\ committed' = conn'
             /\ PendingSignalIds \subseteq SignalIds(committed')
             /\ PendingPositionIds \ (IF CloseStep THEN {ret'.arg} ELSE {})
                    \subseteq OpenPositionIds(committed')
       /\ SignalIds(committed) \subseteq SignalIds(committed')
       /\ OpenPositionIds(committed) \ OpenPositionIds(committed')
              \subseteq (IF CloseStep /\ ret'.raised = "none" THEN {ret'.arg} ELSE {})]_vars

\* the store was closed without a commit after a close_open_position had
\* returned, and the file holds a signal, a trade and another open position
C37_Witness ==
    /\ ret.op = "close"
    /\ committed.signal # {}
    /\ committed.trade # {}
    /\ committed.open_position # {}
    /\ closedIds # {}

\* C38: no signal, open position or trade is added to a run that has been
\* closed: every row a step adds is owned by a run whose end_time was not set
\* before the step.
AddedRows == (conn'.signal \ conn.signal)
                \cup (conn'.open_position \ conn.open_position)
                \cup (conn'.trade \ conn.trade)
C38_ClosedRunGetsNoRecord ==
    [][\A row \in AddedRows :
          \A run \in conn.backtest_run :
              run.run_id = row.run_id => run.end_time = NULL]_vars

\* ------------------------------------------------------------ no look-ahead
\* The first t bars of a frame: a series that agrees with it on bars 0 .. t-1
\* and has no later bar.
Prefix(df, t) == [c \in DOMAIN df |-> SubSeq(df[c], 1, t)]
Outputs(fn) ==
    IF fn = "calculate_adx" THEN {"plus_di", "minus_di", "adx"}
    ELSE {"donchian_high", "donchian_low"}
Indicator(fn, df, period) ==
    IF fn = "calculate_adx" THEN Indicators_calculate_adx(df, period, FALSE)
    ELSE Indicators_calculate_donchian(df, period)

\* C39: the value an indicator gives at a bar does not depend on later bars:
\* what calculate_adx (plus_di, minus_di, adx) and calculate_donchian return
\* at a bar of the series is what they return at that bar for the series cut
\* off after it, the two series agreeing on every bar up to that one.
\* (calculate_atr returns no value to compare.)
C39_NoLookAhead ==
    (/\ frame.called /\ frame.raised = "none"
     /\ frame.fn \in {"calculate_adx", "calculate_donchian"}) =>
        \A t \in 1 .. Rows(frame.given) :
            \A c \in Outputs(frame.fn) :
                frame.value[c][t]
                    = Indicator(frame.fn, Prefix(frame.given, t), frame.period).value[c][t]

====
